---- MODULE Spec2Model ----
(***************************************************************************)
(* Model of be/src/main.rs: the Redis-backed active fleet cache (three     *)
(* indexes and the ingest heartbeat), the on_any ingest handler with       *)
(* write_buses_to_redis, the snapshot read load_active_bus_snapshot, and   *)
(* the reconnect loop of run_bus_ingestor.                                 *)
(*                                                                         *)
(* Time is in abstract milliseconds 0..MaxTime.  Coordinates lie on one    *)
(* meridian, latitude counted in units of 0.01 km, so that the great-      *)
(* circle distance of two points is the absolute latitude difference.      *)
(* Option<T> is a sequence of length 0 (None) or 1 (Some).  A string the   *)
(* code edits (a route code) is a sequence of characters.  Durations other *)
(* than the backoff are in the units of the clock; eta_minutes is counted  *)
(* in tenths of a minute.  Where the keepalive timer runs (ReloadClock), a  *)
(* unit of the clock is 10 s and the 20 s interval is RELOAD_INTERVAL = 2. *)
(***************************************************************************)
EXTENDS Integers, Sequences, FiniteSets, TLC

\* ------------------------------------------------------------------ bounds
MaxTime == 2
MaxTTL == 1
MaxMsgs == 2
MaxFailures == 7
MaxReconnects == 2
MaxMotionTime == 3
MaxMotionTTL == 2
MaxSamples == 3
MaxStale == 1
MaxReloadTime == 5

\* ------------------------------------------------------- program constants
STATIONARY_SPEED_THRESHOLD_KMH == 1
STATIONARY_DISTANCE_THRESHOLD_KM == 3
STATIONARY_WINDOW_MS == 2
MAX_DERIVED_STOP_DISTANCE_KM == 75
DEFAULT_SPEED_KMH == 20
BACKOFF_FLOOR == 1
BACKOFF_CAP == 30
BACKOFF_FACTOR == 2
RELOAD_INTERVAL == 2

Vehicles == {"B1", "B2"}
VehicleOrder == <<"B1", "B2">>

None == <<>>
Some(x) == <<x>>

EmptyMap == [x \in {} |-> 0]
Put(f, k, v) == [x \in DOMAIN f \cup {k} |-> IF x = k THEN v ELSE f[x]]
Restrict(f, S) == [x \in DOMAIN f \cap S |-> f[x]]

Min(a, b) == IF a <= b THEN a ELSE b
Abs(x) == IF x < 0 THEN 0 - x ELSE x

SeqToSet(s) == {s[i] : i \in 1..Len(s)}

RECURSIVE Concat(_)
Concat(ss) == IF ss = <<>> THEN <<>> ELSE Head(ss) \o Concat(Tail(ss))

\* ------------------------------------------------------------ redis commands
Rank(id) == CHOOSE i \in 1..Len(VehicleOrder) : VehicleOrder[i] = id

\* members of a sorted set in ZRANGEBYSCORE order: by score, then by member
RECURSIVE SortByScore(_, _)
SortByScore(z, S) ==
    IF S = {} THEN <<>>
    ELSE LET m == CHOOSE a \in S : \A b \in S :
                      \/ z[a] < z[b]
                      \/ z[a] = z[b] /\ Rank(a) <= Rank(b)
         IN <<m>> \o SortByScore(z, S \ {m})

\* a stale read that finds nothing
ZRangeByScoreNothing(z, hi) == <<>>

\* ZRANGEBYSCORE key -inf hi
ZRangeByScoreUpTo(z, hi) == SortByScore(z, {m \in DOMAIN z : z[m] <= hi})

\* an active read that starts one millisecond early
ZRangeByScoreFromBefore(z, lo) == SortByScore(z, {m \in DOMAIN z : z[m] >= lo - 1})

\* ZRANGEBYSCORE key lo +inf
ZRangeByScoreFrom(z, lo) == SortByScore(z, {m \in DOMAIN z : z[m] >= lo})

\* a range removal that excludes its upper end
ZRemRangeByScoreBelow(z, hi) == Restrict(z, {m \in DOMAIN z : z[m] >= hi})

\* ZREMRANGEBYSCORE key -inf hi
ZRemRangeByScoreUpTo(z, hi) == Restrict(z, {m \in DOMAIN z : z[m] > hi})

ZAdd(z, score, member) == Put(z, member, score)

HSet(h, field, value) == Put(h, field, value)

\* a delete that drops the whole hash
HDelAll(h, fields) == EmptyMap

HDel(h, fields) == Restrict(h, DOMAIN h \ SeqToSet(fields))

HMGet(h, fields) ==
    [i \in 1..Len(fields) |->
        IF fields[i] \in DOMAIN h THEN Some(h[fields[i]]) ELSE None]

\* ----------------------------------------------------------------- JSON
\* serde_json::to_string / from_str of BusPosition and BusMotionState: the
\* stored string is the tagged value; anything else does not deserialize.
to_string(v) == <<"json", v>>
from_str(s) == IF Len(s) = 2 /\ s[1] = "json" THEN Some(s[2]) ELSE None

\* ------------------------------------------------------- motion classifier
haversine_distance(lat1, lon1, lat2, lon2) ==
    IF lon1 = lon2 THEN Abs(lat2 - lat1) ELSE Abs(lat2 - lat1) + Abs(lon2 - lon1)

\* a classifier that keeps the anchor of a fast vehicle that has drifted little
UpdateMotionKeepingAnchor(previous_state, bus, now_ms) ==
    LET reference_lat == IF previous_state # None
                         THEN previous_state[1].reference_lat ELSE bus.latitude
        reference_lon == IF previous_state # None
                         THEN previous_state[1].reference_lon ELSE bus.longitude
        distance_from_reference ==
            haversine_distance(bus.latitude, bus.longitude, reference_lat, reference_lon)
        is_slow == bus.speed <= STATIONARY_SPEED_THRESHOLD_KMH
    IN  IF distance_from_reference >= STATIONARY_DISTANCE_THRESHOLD_KM
        THEN [reference_lat |-> bus.latitude,
              reference_lon |-> bus.longitude,
              stationary_since_unix_ms |-> IF is_slow THEN Some(now_ms) ELSE None]
        ELSE IF is_slow
        THEN [reference_lat |-> reference_lat,
              reference_lon |-> reference_lon,
              stationary_since_unix_ms |->
                  IF previous_state # None
                     /\ previous_state[1].stationary_since_unix_ms # None
                  THEN previous_state[1].stationary_since_unix_ms
                  ELSE Some(now_ms)]
        ELSE [reference_lat |-> reference_lat,
              reference_lon |-> reference_lon,
              stationary_since_unix_ms |-> None]

\* a classifier that lets a dwell survive a displacement
UpdateMotionDisplacedKeepsDwell(previous_state, bus, now_ms) ==
    LET reference_lat == IF previous_state # None
                         THEN previous_state[1].reference_lat ELSE bus.latitude
        reference_lon == IF previous_state # None
                         THEN previous_state[1].reference_lon ELSE bus.longitude
        distance_from_reference ==
            haversine_distance(bus.latitude, bus.longitude, reference_lat, reference_lon)
        is_slow == bus.speed <= STATIONARY_SPEED_THRESHOLD_KMH
    IN  IF distance_from_reference >= STATIONARY_DISTANCE_THRESHOLD_KM
        THEN [reference_lat |-> bus.latitude,
              reference_lon |-> bus.longitude,
              stationary_since_unix_ms |->
                  IF ~is_slow THEN None
                  ELSE IF previous_state # None
                          /\ previous_state[1].stationary_since_unix_ms # None
                  THEN previous_state[1].stationary_since_unix_ms
                  ELSE Some(now_ms)]
        ELSE IF is_slow
        THEN [reference_lat |-> reference_lat,
              reference_lon |-> reference_lon,
              stationary_since_unix_ms |->
                  IF previous_state # None
                     /\ previous_state[1].stationary_since_unix_ms # None
                  THEN previous_state[1].stationary_since_unix_ms
                  ELSE Some(now_ms)]
        ELSE [reference_lat |-> bus.latitude,
              reference_lon |-> bus.longitude,
              stationary_since_unix_ms |-> None]

\* a classifier that restarts the dwell at every slow sample
UpdateMotionRestartingDwell(previous_state, bus, now_ms) ==
    LET reference_lat == IF previous_state # None
                         THEN previous_state[1].reference_lat ELSE bus.latitude
        reference_lon == IF previous_state # None
                         THEN previous_state[1].reference_lon ELSE bus.longitude
        distance_from_reference ==
            haversine_distance(bus.latitude, bus.longitude, reference_lat, reference_lon)
        is_slow == bus.speed <= STATIONARY_SPEED_THRESHOLD_KMH
    IN  IF distance_from_reference >= STATIONARY_DISTANCE_THRESHOLD_KM
        THEN [reference_lat |-> bus.latitude,
              reference_lon |-> bus.longitude,
              stationary_since_unix_ms |-> IF is_slow THEN Some(now_ms) ELSE None]
        ELSE IF is_slow
        THEN [reference_lat |-> reference_lat,
              reference_lon |-> reference_lon,
              stationary_since_unix_ms |->
                  Some(now_ms)]
        ELSE [reference_lat |-> bus.latitude,
              reference_lon |-> bus.longitude,
              stationary_since_unix_ms |-> None]

\* a classifier that lets a dwell survive a fast sample with little drift
UpdateMotionFastKeepsDwell(previous_state, bus, now_ms) ==
    LET reference_lat == IF previous_state # None
                         THEN previous_state[1].reference_lat ELSE bus.latitude
        reference_lon == IF previous_state # None
                         THEN previous_state[1].reference_lon ELSE bus.longitude
        distance_from_reference ==
            haversine_distance(bus.latitude, bus.longitude, reference_lat, reference_lon)
        is_slow == bus.speed <= STATIONARY_SPEED_THRESHOLD_KMH
    IN  IF distance_from_reference >= STATIONARY_DISTANCE_THRESHOLD_KM
        THEN [reference_lat |-> bus.latitude,
              reference_lon |-> bus.longitude,
              stationary_since_unix_ms |-> IF is_slow THEN Some(now_ms) ELSE None]
        ELSE IF is_slow
        THEN [reference_lat |-> reference_lat,
              reference_lon |-> reference_lon,
              stationary_since_unix_ms |->
                  IF previous_state # None
                     /\ previous_state[1].stationary_since_unix_ms # None
                  THEN previous_state[1].stationary_since_unix_ms
                  ELSE Some(now_ms)]
        ELSE [reference_lat |-> bus.latitude,
              reference_lon |-> bus.longitude,
              stationary_since_unix_ms |->
                  IF previous_state # None
                  THEN previous_state[1].stationary_since_unix_ms ELSE None]

update_bus_motion_state(previous_state, bus, now_ms) ==
    LET reference_lat == IF previous_state # None
                         THEN previous_state[1].reference_lat ELSE bus.latitude
        reference_lon == IF previous_state # None
                         THEN previous_state[1].reference_lon ELSE bus.longitude
        distance_from_reference ==
            haversine_distance(bus.latitude, bus.longitude, reference_lat, reference_lon)
        is_slow == bus.speed <= STATIONARY_SPEED_THRESHOLD_KMH
    IN  IF distance_from_reference >= STATIONARY_DISTANCE_THRESHOLD_KM
        THEN [reference_lat |-> bus.latitude,
              reference_lon |-> bus.longitude,
              stationary_since_unix_ms |-> IF is_slow THEN Some(now_ms) ELSE None]
        ELSE IF is_slow
        THEN [reference_lat |-> reference_lat,
              reference_lon |-> reference_lon,
              stationary_since_unix_ms |->
                  IF previous_state # None
                     /\ previous_state[1].stationary_since_unix_ms # None
                  THEN previous_state[1].stationary_since_unix_ms
                  ELSE Some(now_ms)]
        ELSE [reference_lat |-> bus.latitude,
              reference_lon |-> bus.longitude,
              stationary_since_unix_ms |-> None]

\* ------------------------------------------------------------- route codes
Last(s) == s[Len(s)]
Front(s) == SubSeq(s, 1, Len(s) - 1)

RECURSIVE TrimStart(_)
TrimStart(s) == IF s # <<>> /\ Head(s) = " " THEN TrimStart(Tail(s)) ELSE s

RECURSIVE TrimEnd(_)
TrimEnd(s) == IF s # <<>> /\ Last(s) = " " THEN TrimEnd(Front(s)) ELSE s

\* str::trim
Trim(s) == TrimEnd(TrimStart(s))

\* char::to_uppercase on the letters route codes are written with
UpperChar(c) == IF c = "t" THEN "T" ELSE c

\* str::to_uppercase
ToUppercase(s) == [i \in 1..Len(s) |-> UpperChar(s[i])]

\* str::trim_end_matches('0')
RECURSIVE TrimEndZeros(_)
TrimEndZeros(s) == IF s # <<>> /\ Last(s) = "0" THEN TrimEndZeros(Front(s)) ELSE s

normalize_route_code(route) == TrimEndZeros(ToUppercase(Trim(route)))

is_t789_route(route) == normalize_route_code(route) = <<"T", "7", "8", "9">>

\* a match of the codes as they are written
IsBusOnRouteVerbatim(bus_route, route_id) == bus_route # <<>> /\ bus_route = route_id

is_bus_on_route(bus_route, route_id) ==
    LET bus_base == normalize_route_code(bus_route)
        route_base == normalize_route_code(route_id)
    IN  bus_base # <<>> /\ bus_base = route_base

\* ------------------------------------------------------------ stationarity
\* a window that a dwell of exactly its length does not fill
IsBusStationaryStrict(snapshot, bus_no, now_ms) ==
    /\ bus_no \in DOMAIN snapshot.motion_states
    /\ snapshot.motion_states[bus_no].stationary_since_unix_ms # None
    /\ now_ms - snapshot.motion_states[bus_no].stationary_since_unix_ms[1]
           > STATIONARY_WINDOW_MS

is_bus_stationary(snapshot, bus_no, now_ms) ==
    /\ bus_no \in DOMAIN snapshot.motion_states
    /\ snapshot.motion_states[bus_no].stationary_since_unix_ms # None
    /\ now_ms - snapshot.motion_states[bus_no].stationary_since_unix_ms[1]
           >= STATIONARY_WINDOW_MS

RECURSIVE FilterNonStationary(_, _, _)
FilterNonStationary(snapshot, buses, now_ms) ==
    IF buses = <<>> THEN <<>>
    ELSE (IF is_bus_stationary(snapshot, Head(buses).bus_no, now_ms)
          THEN <<>> ELSE <<Head(buses)>>)
         \o FilterNonStationary(snapshot, Tail(buses), now_ms)

\* a filter that lets every vehicle through
FilterNothing(snapshot, now_ms) == snapshot.buses

\* now_ms is the value of now_unix_ms() the function reads
filter_non_stationary_buses(snapshot, now_ms) ==
    FilterNonStationary(snapshot, snapshot.buses, now_ms)

\* --------------------------------------------------------- stop resolution
StopWithDetails(stop_id, sequence, stop_lat) ==
    [stop_id |-> stop_id, sequence |-> sequence, stop_lat |-> stop_lat, stop_lon |-> 0]

RouteStopsResponse(route_id, stops) == [route_id |-> route_id, stops |-> stops]

\* Iterator::find on stop_id: the index of the first match, 0 for None
FindStop(stops, stop_id) ==
    IF \E i \in 1..Len(stops) : stops[i].stop_id = stop_id
    THEN CHOOSE i \in 1..Len(stops) :
            /\ stops[i].stop_id = stop_id
            /\ \A j \in 1..(i - 1) : stops[j].stop_id # stop_id
    ELSE 0

StopDistance(bus, stop) ==
    haversine_distance(bus.latitude, bus.longitude, stop.stop_lat, stop.stop_lon)

\* Iterator::min_by on the distance: the index of the first minimum
NearestStop(bus, stops) ==
    CHOOSE i \in 1..Len(stops) :
        /\ \A j \in 1..Len(stops) : StopDistance(bus, stops[i]) <= StopDistance(bus, stops[j])
        /\ \A j \in 1..(i - 1) : StopDistance(bus, stops[j]) > StopDistance(bus, stops[i])

Resolved(stop, source) ==
    Some([stop_id |-> stop.stop_id, sequence |-> stop.sequence, source |-> source])

\* a resolver that refuses a nearest stop exactly MAX_DERIVED_STOP_DISTANCE_KM away
ResolveNearestBelowLimit(bus, route_stops) ==
    IF route_stops.stops = <<>> THEN None
    ELSE LET nearest_stop == route_stops.stops[NearestStop(bus, route_stops.stops)]
         IN  IF StopDistance(bus, nearest_stop) >= MAX_DERIVED_STOP_DISTANCE_KM
             THEN None
             ELSE Resolved(nearest_stop, "Derived")

\* the nearest stop within MAX_DERIVED_STOP_DISTANCE_KM, lines 1125-1149
ResolveNearest(bus, route_stops) ==
    IF route_stops.stops = <<>> THEN None
    ELSE LET nearest_stop == route_stops.stops[NearestStop(bus, route_stops.stops)]
         IN  IF StopDistance(bus, nearest_stop) > MAX_DERIVED_STOP_DISTANCE_KM
             THEN None
             ELSE Resolved(nearest_stop, "Derived")

\* a resolver that ignores the stop the position reports
ResolveByDistanceOnly(bus, route_stops) == ResolveNearest(bus, route_stops)

resolve_current_stop(bus, route_stops) ==
    IF /\ bus.busstop_id # None
       /\ bus.busstop_id[1] # ""
       /\ FindStop(route_stops.stops, bus.busstop_id[1]) # 0
    THEN Resolved(route_stops.stops[FindStop(route_stops.stops, bus.busstop_id[1])],
                  "Live")
    ELSE ResolveNearest(bus, route_stops)

\* ----------------------------------------------------------------- ETA
RECURSIVE SelectSeq2(_, _, _)
SelectSeq2(s, lo, hi) ==
    IF s = <<>> THEN <<>>
    ELSE (IF Head(s).sequence > lo /\ Head(s).sequence <= hi THEN <<Head(s)>> ELSE <<>>)
         \o SelectSeq2(Tail(s), lo, hi)

\* lines 1223-1232: from the vehicle to the first stop, then stop to stop
RECURSIVE ChainDistance(_, _, _)
ChainDistance(prev_lat, prev_lon, stops) ==
    IF stops = <<>> THEN 0
    ELSE haversine_distance(prev_lat, prev_lon, Head(stops).stop_lat, Head(stops).stop_lon)
         + ChainDistance(Head(stops).stop_lat, Head(stops).stop_lon, Tail(stops))

\* f64::round of a non-negative quotient n / d
RoundDiv(n, d) == (2 * n + d) \div (2 * d)

\* a speed that is the default whatever the vehicle reports
EtaSpeedAlwaysDefault(reported) == DEFAULT_SPEED_KMH

\* lines 1234-1238: the speed an ETA is computed with
EtaSpeed(reported) == IF reported > 0 THEN reported ELSE DEFAULT_SPEED_KMH

\* a record builder that keeps a vehicle whose resolved stop is the target stop
BusEtaAtTarget(bus, route_id, target_sequence, route_stops) ==
    LET resolved_stop == resolve_current_stop(bus, route_stops)
    IN  IF resolved_stop = None THEN None
        ELSE IF resolved_stop[1].sequence > target_sequence THEN None
        ELSE LET current_sequence == resolved_stop[1].sequence
                 intermediate_stops ==
                     SelectSeq2(route_stops.stops, current_sequence, target_sequence)
                 total_distance_km ==
                     ChainDistance(bus.latitude, bus.longitude, intermediate_stops)
                 speed == EtaSpeed(bus.speed)
             IN  Some([route_id |-> route_id,
                       bus_no |-> bus.bus_no,
                       current_lat |-> bus.latitude,
                       current_lon |-> bus.longitude,
                       current_stop_id |-> resolved_stop[1].stop_id,
                       current_sequence |-> current_sequence,
                       stop_resolution_source |-> resolved_stop[1].source,
                       stops_away |-> target_sequence - current_sequence,
                       distance_km |-> total_distance_km,
                       speed_kmh |-> bus.speed,
                       eta_minutes |-> RoundDiv(6 * total_distance_km, speed)])

\* lines 1201-1254: the record of one vehicle, or None when it is skipped
BusEta(bus, route_id, target_sequence, route_stops) ==
    LET resolved_stop == resolve_current_stop(bus, route_stops)
    IN  IF resolved_stop = None THEN None
        ELSE IF resolved_stop[1].sequence >= target_sequence THEN None
        ELSE LET current_sequence == resolved_stop[1].sequence
                 intermediate_stops ==
                     SelectSeq2(route_stops.stops, current_sequence, target_sequence)
                 total_distance_km ==
                     ChainDistance(bus.latitude, bus.longitude, intermediate_stops)
                 speed == EtaSpeed(bus.speed)
             IN  Some([route_id |-> route_id,
                       bus_no |-> bus.bus_no,
                       current_lat |-> bus.latitude,
                       current_lon |-> bus.longitude,
                       current_stop_id |-> resolved_stop[1].stop_id,
                       current_sequence |-> current_sequence,
                       stop_resolution_source |-> resolved_stop[1].source,
                       stops_away |-> target_sequence - current_sequence,
                       distance_km |-> total_distance_km,
                       speed_kmh |-> bus.speed,
                       eta_minutes |-> RoundDiv(6 * total_distance_km, speed)])

RECURSIVE RouteEtas(_, _, _, _)
RouteEtas(buses, route_id, target_sequence, route_stops) ==
    IF buses = <<>> THEN <<>>
    ELSE (IF is_bus_on_route(Head(buses).route, route_id)
          THEN BusEta(Head(buses), route_id, target_sequence, route_stops)
          ELSE <<>>)
         \o RouteEtas(Tail(buses), route_id, target_sequence, route_stops)

\* slice::sort_by on eta_minutes: stable
RECURSIVE InsertByEta(_, _)
InsertByEta(sorted, e) ==
    IF sorted = <<>> THEN <<e>>
    ELSE IF e.eta_minutes < Head(sorted).eta_minutes THEN <<e>> \o sorted
    ELSE <<Head(sorted)>> \o InsertByEta(Tail(sorted), e)

\* a sort that puts a record before the records of equal eta_minutes
RECURSIVE InsertBeforeEqual(_, _)
InsertBeforeEqual(sorted, e) ==
    IF sorted = <<>> THEN <<e>>
    ELSE IF e.eta_minutes <= Head(sorted).eta_minutes THEN <<e>> \o sorted
    ELSE <<Head(sorted)>> \o InsertBeforeEqual(Tail(sorted), e)

RECURSIVE SortByEtaUnstable(_)
SortByEtaUnstable(etas) ==
    IF etas = <<>> THEN <<>>
    ELSE InsertBeforeEqual(SortByEtaUnstable(Front(etas)), Last(etas))

RECURSIVE SortByEta(_)
SortByEta(etas) ==
    IF etas = <<>> THEN <<>>
    ELSE InsertByEta(SortByEta(Front(etas)), Last(etas))

Ok(v) == [ok |-> TRUE, value |-> v]
Err(e) == [ok |-> FALSE, value |-> e]

\* a computation that answers an unknown target stop with an empty list
RouteEtaEmptyWithoutTarget(buses, route_id, target_stop_id, route_stops) ==
    LET target == FindStop(route_stops.stops, target_stop_id)
    IN  IF target = 0 THEN Ok(<<>>)
        ELSE Ok(SortByEta(RouteEtas(buses, route_id,
                                    route_stops.stops[target].sequence, route_stops)))

calculate_route_eta_from_stops(buses, route_id, target_stop_id, route_stops) ==
    LET target == FindStop(route_stops.stops, target_stop_id)
    IN  IF target = 0 THEN Err("target stop not found in route")
        ELSE Ok(SortByEta(RouteEtas(buses, route_id,
                                    route_stops.stops[target].sequence, route_stops)))

\* the schedule: route T7890 with its stops in sequence order
Gtfs ==
    << RouteStopsResponse(<<"T", "7", "8", "9", "0">>,
                          << StopWithDetails("S1", 1, 0),
                             StopWithDetails("S2", 2, 10) >>) >>

TargetRoute == <<"T", "7", "8", "9", "0">>
TargetStop == "S2"

\* Vec::sort_by_key on the sequence number is stable: a stop goes behind the
\* stops already placed whose sequence number is not larger
RECURSIVE InsertBySequence(_, _)
InsertBySequence(sorted, stop) ==
    IF sorted = <<>> THEN <<stop>>
    ELSE IF Head(sorted).sequence <= stop.sequence
         THEN <<Head(sorted)>> \o InsertBySequence(Tail(sorted), stop)
         ELSE <<stop>> \o sorted

\* the stop times as the trip's file lists them
StopsInFileOrder(stop_times) == stop_times

\* lines 1501-1503: the stop times of the trip sorted by stop_sequence
RECURSIVE SortBySequence(_)
SortBySequence(stop_times) ==
    IF stop_times = <<>> THEN <<>>
    ELSE InsertBySequence(SortBySequence(Front(stop_times)), Last(stop_times))

\* get_stops_by_route: the stops of the route with this route_id, by sequence
get_stops_by_route(route_id, schedule) ==
    IF \E i \in 1..Len(schedule) : schedule[i].route_id = route_id
    THEN LET route == schedule[CHOOSE i \in 1..Len(schedule) :
                                 /\ schedule[i].route_id = route_id
                                 /\ \A j \in 1..(i - 1) : schedule[j].route_id # route_id]
         IN  Ok([route EXCEPT !.stops = SortBySequence(route.stops)])
    ELSE Err("route not found")

\* lines 1158-1176 after the snapshot: the result of calculate_route_eta
RouteEtaOf(snapshot, schedule, route_id, target_stop_id, now_ms) ==
    LET visible_buses == filter_non_stationary_buses(snapshot, now_ms)
        route_stops == get_stops_by_route(route_id, schedule)
    IN  IF ~route_stops.ok THEN route_stops
        ELSE calculate_route_eta_from_stops(visible_buses, route_id, target_stop_id,
                                            route_stops.value)

\* lines 1027-1032: the records whose route::bus key has not been seen
RECURSIVE PushUnseen(_, _)
PushUnseen(results, seen) ==
    IF results = <<>> THEN <<>>
    ELSE LET key == <<Head(results).route_id, Head(results).bus_no>>
         IN  IF key \in seen THEN PushUnseen(Tail(results), seen)
             ELSE <<Head(results)>> \o PushUnseen(Tail(results), seen \cup {key})

\* lines 1004-1033: the records pushed for the routes from index i on
RECURSIVE StopEtas(_, _, _, _, _)
StopEtas(visible_buses, schedule, stop_id, i, seen) ==
    IF i > Len(schedule) THEN <<>>
    ELSE LET route_stops == get_stops_by_route(schedule[i].route_id, schedule)
             found == route_stops.ok /\ FindStop(route_stops.value.stops, stop_id) # 0
             results == IF found
                        THEN calculate_route_eta_from_stops(
                                 visible_buses, schedule[i].route_id, stop_id,
                                 route_stops.value).value
                        ELSE <<>>
             fresh == PushUnseen(results, seen)
         IN  fresh \o StopEtas(visible_buses, schedule, stop_id, i + 1,
                               seen \cup {<<fresh[k].route_id, fresh[k].bus_no>> :
                                            k \in 1..Len(fresh)})

calculate_stop_eta_from_snapshot(snapshot, schedule, stop_id, now_ms) ==
    SortByEta(StopEtas(filter_non_stationary_buses(snapshot, now_ms), schedule,
                       stop_id, 1, {}))

\* ------------------------------------------------------------------- state
VARIABLES
    clock,          \* now_unix_ms()
    bus_ttl_ms,     \* AppState.bus_ttl_ms
    stale_after_ms, \* AppState.stale_after_ms
    resp,           \* the response of the last HTTP handler that answered
    gtfs,           \* the schedule files load_gtfs_context reads, joined per route
    latest,         \* hash rapidbro:buses:latest      bus_no -> JSON BusPosition
    motion,         \* hash rapidbro:buses:motion      bus_no -> JSON BusMotionState
    last_seen,      \* zset rapidbro:buses:last_seen   bus_no -> score
    last_ingest,    \* string rapidbro:ingestor:last_ingest_at (Option)
    status,         \* IngestorStatus behind the RwLock
    wpc,            \* on_any handler: "idle" | "write" | "pipe" | "ok" | "err"
    w_now,          \* on_any: now_ms
    w_buses,        \* on_any: buses parsed from the payload
    w_pipe,         \* write_buses_to_redis: commands of the pipeline not yet executed
    w_count,        \* write_buses_to_redis: serialized_entries.len()
    qpc,            \* load_active_bus_snapshot: "idle" | "stale" | "evict" | "active"
                    \*   | "buses" | "motion" | "ingest" | "done"; "answered" once
                    \*   the handler that called it has built its response
    q_now,          \* snapshot: now_ms
    q_pipe,         \* snapshot: commands of delete_pipe not yet executed
    q_active,       \* snapshot: active_bus_ids
    q_buses,        \* snapshot: buses
    q_motion,       \* snapshot: motion_states
    q_res,          \* snapshot: the Result returned
    ipc,            \* run_bus_ingestor: "redis_connect" | "connect" | "subscribe"
                    \*   | "mark" | "connected" | "drop" | "sleep"
    backoff_seconds,\* run_bus_ingestor: backoff_seconds
    notified,       \* permit of the current iteration's disconnect_notify
    session,        \* "none" | "open": the handlers of the current socket can fire
    reload_in,      \* time to the next tick of reload_interval, 0 without one
    \* history variables (not program state)
    latestAt,       \* bus_no -> now_ms of the write that stored latest[bus_no]
    justWrote,      \* bus numbers of a batch whose write completed at the current
                    \*   clock value with no step since
    qSeen0,         \* last_seen as it was when the snapshot in flight started
    qSeen,          \* last_seen as it was when the snapshot read the active ids
    qJust,          \* justWrote as it was when the snapshot started
    qTouched,       \* keys written by the ingestor since the snapshot started
    hSlept,         \* seconds slept by the loop's last sleep
    hFails,         \* sleeps completed since start or Connected, up to MaxFailures
    hLost,          \* the loop left Connected and has neither slept nor reached
                    \*   Connected since
    hSessLost,      \* a loss of the current connection has already been recorded
    hPayload,       \* the payload of the event on_any is writing, <<>> otherwise
    hRun,           \* the run of samples at speed 0 and one place the last sample
                    \*   of B1 belongs to: its first and last time and longest gap
    hBefore         \* the indexes and the heartbeat as they were when the event
                    \*   being written arrived

cacheVars == <<latest, motion, last_seen, last_ingest, latestAt>>
writerVars == <<wpc, w_now, w_buses, w_pipe, w_count>>
queryVars == <<qpc, q_now, q_pipe, q_active, q_buses, q_motion, q_res>>
queryHist == <<qSeen0, qSeen, qJust, qTouched>>
loopVars == <<ipc, backoff_seconds, notified, session, reload_in>>
loopHist == <<hSlept, hFails, hLost, hSessLost>>
serveVars == <<stale_after_ms, resp, gtfs>>
vars == <<clock, bus_ttl_ms, serveVars, cacheVars, status, writerVars, queryVars,
          queryHist, justWrote, loopVars, loopHist, hPayload, hRun, hBefore>>

\* ------------------------------------------------------------------ inputs
FeedRoute == <<"T", "7", "8", "9">>

\* a position of the feed on route T789 that reports no stop
BusPosition(bus_no, latitude, speed) ==
    [bus_no |-> bus_no, latitude |-> latitude, longitude |-> 0, speed |-> speed,
     route |-> FeedRoute, busstop_id |-> None]

\* a frame of a Payload::Text: a value that is not a string, a string that does
\* not decode (base64, gzip, UTF-8), a string that decodes to text that is no
\* JSON or no array and no position, a string that decodes to one position or a
\* list of positions, or a string that decodes to an array of which the entries
\* Some(position) are positions and the entries None are not
NonString == [kind |-> "nonstring", buses |-> <<>>]
Garbage == [kind |-> "garbage", buses |-> <<>>]
Unparseable == [kind |-> "unparseable", buses |-> <<>>]
Parsed(buses) == [kind |-> "buses", buses |-> buses]
MixedArray(entries) == [kind |-> "array", buses |-> entries]

CachePositions == {BusPosition(v, 0, 0) : v \in Vehicles}

\* the frames delivered while snapshots run: one position of one vehicle each
CachePayloads == {<<Parsed(<<p>>)>> : p \in CachePositions}

\* ------------------------------------------------------------ initial state
InitialStatus ==
    [connected |-> FALSE, reconnect_count |-> 0, messages_processed |-> 0,
     buses_written |-> 0, decode_failures |-> 0, redis_write_failures |-> 0,
     last_message_unix_ms |-> None, last_error |-> None]

\* no HTTP handler has answered yet
NoResponse == [kind |-> "none", code |-> 0, is_stale |-> FALSE, data |-> <<>>]

NoResult ==
    [ok |-> FALSE, buses |-> <<>>, motion_states |-> EmptyMap,
     active_bus_count |-> 0, last_ingest_at_unix_ms |-> None]

WriterIdle ==
    /\ wpc = "idle" /\ w_now = 0 /\ w_buses = <<>> /\ w_pipe = <<>> /\ w_count = 0
    /\ hPayload = <<>>

WriterReset ==
    /\ wpc' = "idle" /\ w_now' = 0 /\ w_buses' = <<>> /\ w_pipe' = <<>> /\ w_count' = 0
    /\ hPayload' = <<>>

QueryIdle ==
    /\ qpc = "idle" /\ q_now = 0 /\ q_pipe = <<>> /\ q_active = <<>>
    /\ q_buses = <<>> /\ q_motion = EmptyMap /\ q_res = NoResult
    /\ qSeen0 = EmptyMap /\ qSeen = EmptyMap /\ qJust = {} /\ qTouched = {}

QueryReset ==
    /\ qpc' = "idle" /\ q_now' = 0 /\ q_pipe' = <<>> /\ q_active' = <<>>
    /\ q_buses' = <<>> /\ q_motion' = EmptyMap /\ q_res' = NoResult
    /\ qSeen0' = EmptyMap /\ qSeen' = EmptyMap /\ qJust' = {} /\ qTouched' = {}

LoopStart ==
    /\ ipc = "redis_connect" /\ backoff_seconds = BACKOFF_FLOOR
    /\ notified = FALSE /\ session = "none" /\ reload_in = 0
    /\ hSlept = 0 /\ hFails = 0 /\ hLost = FALSE /\ hSessLost = FALSE

CacheEmpty ==
    /\ latest = EmptyMap /\ motion = EmptyMap /\ last_seen = EmptyMap
    /\ last_ingest = None /\ latestAt = EmptyMap /\ justWrote = {}

\* main(): Redis reachable and empty of this service's keys, the status record at
\* its defaults, the ingestor spawned
Start ==
    /\ clock = 0
    /\ CacheEmpty
    /\ status = InitialStatus
    /\ WriterIdle
    /\ QueryIdle
    /\ LoopStart
    /\ resp = NoResponse
    /\ gtfs = Gtfs
    /\ hRun = None
    /\ hBefore = None

\* STALE_AFTER_SECONDS plays no part in the cache, the ingest handler or the
\* reconnect loop; it is left at 0 here and varied where staleness is computed.
\* BUS_TTL_SECONDS is any configured value
Init ==
    /\ Start
    /\ bus_ttl_ms \in 0..MaxTTL
    /\ stale_after_ms = 0

\* ------------------------------------------------------------ on_any handler
\* lines 1366-1376: base64, gzip and UTF-8 all succeed or the result is None
decode_bus_data(value) == IF value.kind = "garbage" THEN None ELSE Some(value)

\* the entries of an array that deserialize as positions, in order
RECURSIVE FilterPositions(_)
FilterPositions(entries) ==
    IF entries = <<>> THEN <<>>
    ELSE Head(entries) \o FilterPositions(Tail(entries))

\* a parse that rejects an array with an entry that is no position
ParseJsonStrict(decoded) ==
    IF decoded.kind = "buses" THEN Some(decoded.buses) ELSE None

\* lines 764-788: one position, a list of positions, or the positions of an array
parse_bus_positions_from_json(decoded) ==
    IF decoded.kind = "buses" THEN Some(decoded.buses)
    ELSE IF decoded.kind = "array"
    THEN LET buses == FilterPositions(decoded.buses)
         IN  IF buses = <<>> THEN None ELSE Some(buses)
    ELSE None

\* lines 744-758: what one value of the payload adds to (buses, decode_failures)
ParseValue(value) ==
    IF value.kind = "nonstring" THEN [buses |-> <<>>, decode_failures |-> 0]
    ELSE LET decoded == decode_bus_data(value)
         IN  IF decoded = None THEN [buses |-> <<>>, decode_failures |-> 1]
             ELSE LET parsed == parse_bus_positions_from_json(decoded[1])
                  IN  IF parsed = None THEN [buses |-> <<>>, decode_failures |-> 1]
                      ELSE [buses |-> parsed[1], decode_failures |-> 0]

RECURSIVE SumSeq(_)
SumSeq(ns) == IF ns = <<>> THEN 0 ELSE Head(ns) + SumSeq(Tail(ns))

parse_bus_positions_from_payload(payload) ==
    [buses |-> Concat([i \in 1..Len(payload) |-> ParseValue(payload[i]).buses]),
     decode_failures |->
         SumSeq([i \in 1..Len(payload) |-> ParseValue(payload[i]).decode_failures])]

\* the keys written so far while a snapshot is in flight
Touch(key) == qTouched' = IF qpc = "idle" THEN qTouched ELSE qTouched \cup {key}

\* lines 514-526: take now_ms, parse, update the counters, return on no buses
OnAnyHandle(payload, max_msgs) ==
    /\ wpc = "idle"
    /\ status.messages_processed < max_msgs
    /\ LET parsed == parse_bus_positions_from_payload(payload)
       IN  /\ status' = [status EXCEPT
                            !.messages_processed = @ + 1,
                            !.last_message_unix_ms = Some(clock),
                            !.decode_failures = @ + parsed.decode_failures]
           /\ IF parsed.buses = <<>>
              THEN UNCHANGED <<writerVars, hPayload>>
              ELSE /\ wpc' = "write"
                   /\ w_now' = clock
                   /\ w_buses' = parsed.buses
                   /\ hPayload' = payload
                   /\ UNCHANGED <<w_pipe, w_count>>
    /\ justWrote' = {}
    /\ UNCHANGED <<clock, bus_ttl_ms, serveVars, cacheVars, queryVars, queryHist,
                   loopVars, loopHist>>

OnAnyBegin(payload) == OnAnyHandle(payload, MaxMsgs) /\ UNCHANGED <<hRun, hBefore>>

\* valid_buses that keeps the first position of the batch for a bus_no
ValidBusesFirst(buses) ==
    LET ids == {buses[i].bus_no : i \in 1..Len(buses)} \ {""}
    IN  [id \in ids |->
            buses[CHOOSE i \in 1..Len(buses) :
                    /\ buses[i].bus_no = id
                    /\ \A j \in 1..Len(buses) : buses[j].bus_no = id => j >= i]]

\* valid_buses: the last position of the batch for each non-empty bus_no
ValidBuses(buses) ==
    LET ids == {buses[i].bus_no : i \in 1..Len(buses)} \ {""}
    IN  [id \in ids |->
            buses[CHOOSE i \in 1..Len(buses) :
                    /\ buses[i].bus_no = id
                    /\ \A j \in 1..Len(buses) : buses[j].bus_no = id => j <= i]]

\* previous_motion_states: HMGET of the motion hash, entries that deserialize
PreviousMotionStates(ids) ==
    LET present == {id \in ids : id \in DOMAIN motion /\ from_str(motion[id]) # None}
    IN  [id \in present |-> from_str(motion[id])[1]]

\* serialized_entries with an entry for every position, numbered or not
RECURSIVE SerializedEntriesAll(_)
SerializedEntriesAll(buses) ==
    IF buses = <<>> THEN <<>>
    ELSE <<[bus_no |-> Head(buses).bus_no, bus_json |-> to_string(Head(buses))]>>
         \o SerializedEntriesAll(Tail(buses))

\* serialized_entries: one entry per position with a non-empty bus_no, in order
RECURSIVE SerializedEntries(_)
SerializedEntries(buses) ==
    IF buses = <<>> THEN <<>>
    ELSE IF Head(buses).bus_no = "" THEN SerializedEntries(Tail(buses))
    ELSE <<[bus_no |-> Head(buses).bus_no, bus_json |-> to_string(Head(buses))]>>
         \o SerializedEntries(Tail(buses))

\* lines 703-730: three commands per entry, then SET of the heartbeat
RECURSIVE BuildPipe(_, _, _, _)
BuildPipe(entries, valid_buses, previous, now_ms) ==
    IF entries = <<>>
    THEN <<[cmd |-> "SET", key |-> "last_ingest", field |-> "", value |-> now_ms]>>
    ELSE IF Head(entries).bus_no \notin DOMAIN valid_buses
    THEN BuildPipe(Tail(entries), valid_buses, previous, now_ms)
    ELSE LET e == Head(entries)
             prev == IF e.bus_no \in DOMAIN previous
                     THEN Some(previous[e.bus_no]) ELSE None
             motion_state ==
                 update_bus_motion_state(prev, valid_buses[e.bus_no], now_ms)
         IN  << [cmd |-> "HSET", key |-> "latest", field |-> e.bus_no,
                 value |-> e.bus_json],
                [cmd |-> "HSET", key |-> "motion", field |-> e.bus_no,
                 value |-> to_string(motion_state)],
                [cmd |-> "ZADD", key |-> "last_seen", field |-> e.bus_no,
                 value |-> now_ms] >>
             \o BuildPipe(Tail(entries), valid_buses, previous, now_ms)

\* lines 657-701: read the previous motion states and build the pipeline
WritePrepare ==
    /\ wpc = "write"
    /\ LET valid_buses == ValidBuses(w_buses)
           previous == PreviousMotionStates(DOMAIN valid_buses)
           entries == SerializedEntries(w_buses)
       IN  IF entries = <<>>
           THEN /\ wpc' = "ok"
                /\ w_count' = 0
                /\ w_pipe' = <<>>
           ELSE /\ wpc' = "pipe"
                /\ w_count' = Len(entries)
                /\ w_pipe' = BuildPipe(entries, valid_buses, previous, w_now)
    /\ w_buses' = <<>>
    /\ UNCHANGED <<w_now, clock, bus_ttl_ms, serveVars, hRun, hBefore, cacheVars, status, queryVars,
                   queryHist, justWrote, loopVars, loopHist, hPayload>>

\* the HMGET of line 668 fails: write_buses_to_redis returns Err
WritePrepareFail ==
    /\ wpc = "write"
    /\ DOMAIN ValidBuses(w_buses) # {}
    /\ wpc' = "err"
    /\ w_buses' = <<>>
    /\ UNCHANGED <<w_now, w_pipe, w_count, clock, bus_ttl_ms, serveVars, hRun, hBefore, cacheVars,
                   status, queryVars, queryHist, justWrote, loopVars, loopHist,
                   hPayload>>

\* one command of a pipeline executed by the Redis server
Execute(c, at) ==
    /\ latest' = IF c.key = "latest"
                 THEN IF c.cmd = "HSET" THEN HSet(latest, c.field, c.value)
                      ELSE HDel(latest, c.value)
                 ELSE latest
    /\ latestAt' = IF c.key = "latest"
                   THEN IF c.cmd = "HSET" THEN Put(latestAt, c.field, at)
                        ELSE HDel(latestAt, c.value)
                   ELSE latestAt
    /\ motion' = IF c.key = "motion"
                 THEN IF c.cmd = "HSET" THEN HSet(motion, c.field, c.value)
                      ELSE HDel(motion, c.value)
                 ELSE motion
    /\ last_seen' = IF c.key = "last_seen"
                    THEN IF c.cmd = "ZADD" THEN ZAdd(last_seen, c.value, c.field)
                         ELSE ZRemRangeByScoreUpTo(last_seen, c.value)
                    ELSE last_seen
    /\ last_ingest' = IF c.key = "last_ingest" THEN Some(c.value) ELSE last_ingest

\* line 732: the pipeline is not MULTI/EXEC; its commands run one by one
WritePipeStep ==
    /\ wpc = "pipe"
    /\ w_pipe # <<>>
    /\ LET c == Head(w_pipe)
       IN  /\ Execute(c, w_now)
           /\ Touch(IF c.key = "last_ingest" THEN "*heartbeat" ELSE c.field)
           /\ w_pipe' = Tail(w_pipe)
           /\ IF Tail(w_pipe) = <<>>
              THEN /\ wpc' = "ok"
                   /\ justWrote' = IF w_now = clock /\ qpc = "idle"
                                   THEN {v \in DOMAIN last_seen' \cap DOMAIN latestAt' :
                                           last_seen'[v] = w_now /\ latestAt'[v] = w_now}
                                   ELSE {}
              ELSE /\ wpc' = "pipe"
                   /\ justWrote' = {}
    /\ UNCHANGED <<w_now, w_buses, w_count, clock, bus_ttl_ms, serveVars, hRun, hBefore, status,
                   queryVars, qSeen0, qSeen, qJust, loopVars, loopHist, hPayload>>

\* line 734: the connection fails with commands of the pipeline not executed
WritePipeFail ==
    /\ wpc = "pipe"
    /\ w_pipe # <<>>
    /\ wpc' = "err"
    /\ w_pipe' = <<>>
    /\ justWrote' = {}
    /\ UNCHANGED <<w_now, w_buses, w_count, clock, bus_ttl_ms, serveVars, hRun, hBefore, cacheVars,
                   status, queryVars, queryHist, loopVars, loopHist, hPayload>>

\* lines 529-533
OnAnyOk ==
    /\ wpc = "ok"
    /\ status' = [status EXCEPT !.buses_written = @ + w_count, !.last_error = None]
    /\ WriterReset
    /\ UNCHANGED <<clock, bus_ttl_ms, serveVars, hRun, hBefore, cacheVars, queryVars, queryHist,
                   justWrote, loopVars, loopHist>>

\* a write failure recorded as a lost connection
OnAnyErrDisconnects ==
    /\ wpc = "err"
    /\ status' = [status EXCEPT !.redis_write_failures = @ + 1,
                                !.connected = FALSE,
                                !.last_error = Some("Redis write failed")]
    /\ WriterReset
    /\ UNCHANGED <<clock, bus_ttl_ms, serveVars, hRun, hBefore, cacheVars, queryVars, queryHist,
                   justWrote, loopVars, loopHist>>

\* lines 534-538
OnAnyErr ==
    /\ wpc = "err"
    /\ status' = [status EXCEPT !.redis_write_failures = @ + 1,
                                !.last_error = Some("Redis write failed")]
    /\ WriterReset
    /\ UNCHANGED <<clock, bus_ttl_ms, serveVars, hRun, hBefore, cacheVars, queryVars, queryHist,
                   justWrote, loopVars, loopHist>>

\* ------------------------------------------------- load_active_bus_snapshot
\* a cutoff that ignores the TTL
CutoffNoTTL == q_now

\* line 379: cutoff_ms
Cutoff == q_now - bus_ttl_ms

QueryFrame ==
    UNCHANGED <<clock, bus_ttl_ms, serveVars, hRun, hBefore, status, writerVars, loopVars, loopHist,
                hPayload>>

\* lines 378-384: take now_ms and get a connection
QueryStart ==
    /\ qpc = "idle"
    /\ qpc' = "stale"
    /\ q_now' = clock
    /\ qSeen0' = last_seen
    /\ qJust' = justWrote
    /\ justWrote' = {}
    /\ UNCHANGED <<q_pipe, q_active, q_buses, q_motion, q_res, qSeen, qTouched>>
    /\ UNCHANGED cacheVars
    /\ QueryFrame

\* lines 386-411: read the stale ids and build delete_pipe
QueryReadStale ==
    /\ qpc = "stale"
    /\ LET stale_bus_ids == ZRangeByScoreUpTo(last_seen, Cutoff)
       IN  IF stale_bus_ids = <<>>
           THEN /\ qpc' = "active"
                /\ q_pipe' = <<>>
           ELSE /\ qpc' = "evict"
                /\ q_pipe' = << [cmd |-> "HDEL", key |-> "latest", field |-> "",
                                 value |-> stale_bus_ids],
                                [cmd |-> "HDEL", key |-> "motion", field |-> "",
                                 value |-> stale_bus_ids],
                                [cmd |-> "ZREMRANGEBYSCORE", key |-> "last_seen",
                                 field |-> "", value |-> Cutoff] >>
    /\ justWrote' = {}
    /\ UNCHANGED <<q_now, q_active, q_buses, q_motion, q_res, queryHist>>
    /\ UNCHANGED cacheVars
    /\ QueryFrame

\* lines 412-415: the commands of delete_pipe run one by one
QueryEvictStep ==
    /\ qpc = "evict"
    /\ q_pipe # <<>>
    /\ Execute(Head(q_pipe), 0)
    /\ q_pipe' = Tail(q_pipe)
    /\ qpc' = IF Tail(q_pipe) = <<>> THEN "active" ELSE "evict"
    /\ justWrote' = {}
    /\ UNCHANGED <<q_now, q_active, q_buses, q_motion, q_res, queryHist>>
    /\ QueryFrame

\* lines 418-427 and 443-444: read the active ids
QueryReadActive ==
    /\ qpc = "active"
    /\ q_active' = ZRangeByScoreFrom(last_seen, Cutoff + 1)
    /\ qSeen' = last_seen
    /\ qpc' = IF q_active' = <<>> THEN "ingest" ELSE "buses"
    /\ justWrote' = {}
    /\ UNCHANGED <<q_now, q_pipe, q_buses, q_motion, q_res, qSeen0, qJust, qTouched>>
    /\ UNCHANGED cacheVars
    /\ QueryFrame

\* raw_buses.into_iter().flatten().filter_map(from_str)
RECURSIVE FlattenParsed(_)
FlattenParsed(raw) ==
    IF raw = <<>> THEN <<>>
    ELSE IF Head(raw) = None \/ from_str(Head(raw)[1]) = None
    THEN FlattenParsed(Tail(raw))
    ELSE <<from_str(Head(raw)[1])[1]>> \o FlattenParsed(Tail(raw))

\* lines 429-440
QueryFetchBuses ==
    /\ qpc = "buses"
    /\ q_buses' = FlattenParsed(HMGet(latest, q_active))
    /\ qpc' = "motion"
    /\ justWrote' = {}
    /\ UNCHANGED <<q_now, q_pipe, q_active, q_motion, q_res, queryHist>>
    /\ UNCHANGED cacheVars
    /\ QueryFrame

\* active_bus_ids zipped with the HMGET of the motion hash, entries that parse
ZipMotionStates(ids, raw) ==
    LET present == {i \in 1..Len(ids) : raw[i] # None /\ from_str(raw[i][1]) # None}
    IN  [id \in {ids[i] : i \in present} |->
            from_str(raw[CHOOSE i \in present : ids[i] = id][1])[1]]

\* lines 446-464
QueryFetchMotion ==
    /\ qpc = "motion"
    /\ q_motion' = ZipMotionStates(q_active, HMGet(motion, q_active))
    /\ qpc' = "ingest"
    /\ justWrote' = {}
    /\ UNCHANGED <<q_now, q_pipe, q_active, q_buses, q_res, queryHist>>
    /\ UNCHANGED cacheVars
    /\ QueryFrame

\* lines 467-478: GET of the heartbeat, an error read as None, and the Ok result
QueryGetIngest ==
    /\ qpc = "ingest"
    /\ \E got \in {last_ingest, None} :
          q_res' = [ok |-> TRUE, buses |-> q_buses, motion_states |-> q_motion,
                    active_bus_count |-> Len(q_active),
                    last_ingest_at_unix_ms |-> got]
    /\ qpc' = "done"
    /\ q_active' = <<>> /\ q_buses' = <<>> /\ q_motion' = EmptyMap
    /\ justWrote' = {}
    /\ UNCHANGED <<q_now, q_pipe, queryHist>>
    /\ UNCHANGED cacheVars
    /\ QueryFrame

\* a failing query that records its error in the ingestor's status
QueryFailRecorded ==
    /\ qpc \in {"stale", "evict", "active", "buses", "motion"}
    /\ qpc' = "done"
    /\ q_res' = NoResult
    /\ q_pipe' = <<>> /\ q_active' = <<>> /\ q_buses' = <<>> /\ q_motion' = EmptyMap
    /\ justWrote' = {}
    /\ status' = [status EXCEPT !.last_error = Some("redis")]
    /\ UNCHANGED <<q_now, queryHist>>
    /\ UNCHANGED cacheVars
    /\ UNCHANGED <<clock, bus_ttl_ms, serveVars, hRun, hBefore, writerVars, loopVars, loopHist,
                   hPayload>>

\* map_err(internal_error)?: the connection or one of the commands fails
QueryFail ==
    /\ qpc \in {"stale", "evict", "active", "buses", "motion"}
    /\ qpc' = "done"
    /\ q_res' = NoResult
    /\ q_pipe' = <<>> /\ q_active' = <<>> /\ q_buses' = <<>> /\ q_motion' = EmptyMap
    /\ justWrote' = {}
    /\ UNCHANGED <<q_now, queryHist>>
    /\ UNCHANGED cacheVars
    /\ QueryFrame

\* the handler answers and the request is over
QueryReturn ==
    /\ qpc = "done"
    /\ QueryReset
    /\ justWrote' = {}
    /\ UNCHANGED cacheVars
    /\ QueryFrame

\* the wall clock advances
Tick ==
    /\ clock < MaxTime
    /\ clock' = clock + 1
    /\ justWrote' = {}
    /\ UNCHANGED <<bus_ttl_ms, serveVars, hRun, hBefore, cacheVars, status, writerVars, queryVars,
                   queryHist, loopVars, loopHist, hPayload>>

\* the rest of the handler when every Redis command succeeds
OnAnyNext ==
    \/ WritePrepare
    \/ WritePipeStep
    \/ OnAnyOk

QueryNext ==
    \/ QueryStart
    \/ QueryReadStale
    \/ QueryEvictStep
    \/ QueryReadActive
    \/ QueryFetchBuses
    \/ QueryFetchMotion
    \/ QueryGetIngest
    \/ QueryFail
    \/ QueryReturn

Next ==
    \/ \E payload \in CachePayloads : OnAnyBegin(payload)
    \/ OnAnyNext
    \/ QueryNext
    \/ Tick

Spec == Init /\ [][Next]_vars

\* ---------------------------------------------------------- run_bus_ingestor
\* reconnect_count += 1 on a u64; the model keeps the counter modulo
\* MaxReconnects + 1
CountOne(n) == (n + 1) % (MaxReconnects + 1)

\* lines 790-797
record_ingestor_error(s, message, count_reconnect) ==
    [s EXCEPT !.connected = FALSE,
              !.last_error = Some(message),
              !.reconnect_count = IF count_reconnect THEN CountOne(@) ELSE @]

\* a backoff that doubles without a cap
NextBackoffNoCap(seconds) == seconds * BACKOFF_FACTOR

\* lines 499, 599, 646: (backoff_seconds * 2).min(30)
NextBackoff(seconds) == Min(seconds * BACKOFF_FACTOR, BACKOFF_CAP)

LoopFrame ==
    UNCHANGED <<clock, bus_ttl_ms, serveVars, hRun, hBefore, cacheVars, writerVars, queryVars,
                queryHist, justWrote, hPayload>>

\* lines 489-490 and 504: the cache connection is made, a new Notify is created
\* and the upstream connection attempt starts
RedisConnectOk ==
    /\ ipc = "redis_connect"
    /\ ipc' = "connect"
    /\ notified' = FALSE
    /\ UNCHANGED <<reload_in, backoff_seconds, session, status, loopHist>>
    /\ LoopFrame

\* lines 491-497: the cache connection fails
RedisConnectFail ==
    /\ ipc = "redis_connect"
    /\ status' = record_ingestor_error(
                     status, "Redis connection failed before socket connect", TRUE)
    /\ ipc' = "sleep"
    /\ UNCHANGED <<reload_in, backoff_seconds, notified, session, loopHist>>
    /\ LoopFrame

\* lines 549-584: connect() returns Ok; the handlers of the socket can fire
ConnectOk ==
    /\ ipc = "connect"
    /\ ipc' = "subscribe"
    /\ session' = "open"
    /\ hSessLost' = FALSE
    /\ UNCHANGED <<reload_in, backoff_seconds, notified, status, hSlept, hFails, hLost>>
    /\ LoopFrame

\* lines 642-644: connect() returns Err
ConnectFail ==
    /\ ipc = "connect"
    /\ status' = record_ingestor_error(status, "Socket connection failed", TRUE)
    /\ ipc' = "sleep"
    /\ UNCHANGED <<reload_in, backoff_seconds, notified, session, loopHist>>
    /\ LoopFrame

\* line 591: the subscribe request is sent
SubscribeOk ==
    /\ ipc = "subscribe"
    /\ ipc' = "mark"
    /\ UNCHANGED <<reload_in, backoff_seconds, notified, session, status, loopHist>>
    /\ LoopFrame

\* lines 591-597: the subscribe request cannot be sent
SubscribeFail ==
    /\ ipc = "subscribe"
    /\ status' = record_ingestor_error(status, "Socket subscribe emit failed", TRUE)
    /\ ipc' = "sleep"
    /\ hSessLost' = TRUE
    /\ UNCHANGED <<reload_in, backoff_seconds, notified, session, hSlept, hFails, hLost>>
    /\ LoopFrame

\* lines 603-613: the status is marked connected and the backoff is reset
MarkConnected ==
    /\ ipc = "mark"
    /\ status' = [status EXCEPT !.connected = TRUE, !.last_error = None]
    /\ backoff_seconds' = BACKOFF_FLOOR
    /\ ipc' = "connected"
    /\ reload_in' = RELOAD_INTERVAL
    /\ hFails' = 0
    /\ hLost' = FALSE
    /\ UNCHANGED <<notified, session, hSlept, hSessLost>>
    /\ LoopFrame

\* lines 617-619: the select loop takes the permit of disconnect_notify and breaks
NotifiedBreak ==
    /\ ipc = "connected"
    /\ notified
    /\ notified' = FALSE
    /\ ipc' = "drop"
    /\ hLost' = TRUE
    /\ UNCHANGED <<reload_in, backoff_seconds, session, status, hSlept, hFails, hSessLost>>
    /\ LoopFrame

\* a keepalive failure that is recorded without counting a reconnect
KeepaliveFailUncounted ==
    /\ ipc = "connected"
    /\ status' = record_ingestor_error(
                     status, "Periodic socket reload emit failed", FALSE)
    /\ ipc' = "drop"
    /\ hLost' = TRUE
    /\ hSessLost' = TRUE
    /\ UNCHANGED <<reload_in, backoff_seconds, notified, session, hSlept, hFails>>
    /\ LoopFrame

\* lines 620-636: the periodic subscribe request cannot be sent; break
KeepaliveFail ==
    /\ ipc = "connected"
    /\ status' = record_ingestor_error(
                     status, "Periodic socket reload emit failed", TRUE)
    /\ ipc' = "drop"
    /\ hLost' = TRUE
    /\ hSessLost' = TRUE
    /\ UNCHANGED <<reload_in, backoff_seconds, notified, session, hSlept, hFails>>
    /\ LoopFrame

\* lines 620-627: reload_interval ticks and the subscribe request is sent again
ReloadTickOk ==
    /\ ipc = "connected"
    /\ reload_in = 0
    /\ reload_in' = RELOAD_INTERVAL
    /\ UNCHANGED <<ipc, backoff_seconds, notified, session, status, loopHist>>
    /\ LoopFrame

\* lines 620-636: reload_interval ticks and the subscribe request cannot be sent
ReloadTickFail ==
    /\ reload_in = 0
    /\ KeepaliveFail

\* time passes and reload_interval runs; a tick that is due is taken first
ReloadClock ==
    /\ clock < MaxReloadTime
    /\ ~(ipc = "connected" /\ reload_in = 0)
    /\ clock' = clock + 1
    /\ reload_in' = IF ipc = "connected" THEN reload_in - 1 ELSE reload_in
    /\ justWrote' = {}
    /\ UNCHANGED <<ipc, backoff_seconds, notified, session>>
    /\ UNCHANGED <<bus_ttl_ms, serveVars, hRun, hBefore, cacheVars, status, writerVars, queryVars,
                   queryHist, loopHist, hPayload>>

\* line 640 and the end of the loop body: the socket is dropped and the next
\* iteration starts
DropSocket ==
    /\ ipc = "drop"
    /\ session' = "none"
    /\ notified' = FALSE
    /\ hSessLost' = FALSE
    /\ ipc' = "redis_connect"
    /\ reload_in' = 0
    /\ UNCHANGED <<backoff_seconds, status, hSlept, hFails, hLost>>
    /\ LoopFrame

\* a sleep after which the task ends instead of starting the next iteration
SleepAndExit ==
    /\ ipc = "sleep"
    /\ ipc' = "exit"
    /\ UNCHANGED <<reload_in, backoff_seconds, notified, session, status, loopHist>>
    /\ LoopFrame

\* lines 498-500, 598-600, 645-646: sleep backoff_seconds, double the backoff up
\* to the cap, and start the next iteration (a socket of this iteration is dropped)
SleepDone ==
    /\ ipc = "sleep"
    /\ hSlept' = backoff_seconds
    /\ backoff_seconds' = NextBackoff(backoff_seconds)
    /\ hFails' = Min(hFails + 1, MaxFailures)
    /\ hLost' = FALSE
    /\ session' = "none"
    /\ notified' = FALSE
    /\ hSessLost' = FALSE
    /\ ipc' = "redis_connect"
    /\ UNCHANGED <<status, reload_in>>
    /\ LoopFrame

\* lines 552-565: the "disconnect" handler of the current socket
OnDisconnect ==
    /\ session = "open"
    /\ status' = [status EXCEPT !.connected = FALSE,
                                !.last_error = Some("Socket disconnected"),
                                !.reconnect_count = CountOne(@)]
    /\ notified' = TRUE
    /\ hSessLost' = TRUE
    /\ UNCHANGED <<reload_in, ipc, backoff_seconds, session, hSlept, hFails, hLost>>
    /\ LoopFrame

\* lines 566-579: the "error" handler of the current socket
OnError ==
    /\ session = "open"
    /\ status' = [status EXCEPT !.connected = FALSE,
                                !.last_error = Some("Socket error event"),
                                !.reconnect_count = CountOne(@)]
    /\ notified' = TRUE
    /\ hSessLost' = TRUE
    /\ UNCHANGED <<reload_in, ipc, backoff_seconds, session, hSlept, hFails, hLost>>
    /\ LoopFrame

\* the steps of the loop task
LoopStep ==
    \/ RedisConnectOk
    \/ RedisConnectFail
    \/ ConnectOk
    \/ ConnectFail
    \/ SubscribeOk
    \/ SubscribeFail
    \/ MarkConnected
    \/ NotifiedBreak
    \/ KeepaliveFail
    \/ DropSocket
    \/ SleepDone

\* the events the upstream client delivers to the handlers of the socket
SocketEvent ==
    \/ OnDisconnect
    \/ OnError

LoopNext ==
    \/ LoopStep
    \/ SocketEvent

\* the connection lifecycle alone: no frame arrives and no snapshot is taken
LoopSpec == Init /\ [][LoopNext]_vars

\* the loop task is scheduled: an await that can complete does complete, with
\* either outcome, and a select with a stored permit takes it
LoopFairness ==
    /\ WF_vars(RedisConnectOk \/ RedisConnectFail)
    /\ WF_vars(ConnectOk \/ ConnectFail)
    /\ WF_vars(SubscribeOk \/ SubscribeFail)
    /\ WF_vars(MarkConnected)
    /\ WF_vars(NotifiedBreak)
    /\ WF_vars(DropSocket)
    /\ WF_vars(SleepDone)

FairLoopSpec == Init /\ [][LoopNext]_vars /\ LoopFairness

\* ------------------------------------------------ properties of the snapshot
\* the snapshot has returned Ok and the request is not yet answered
SnapshotOk == qpc = "done" /\ q_res.ok

\* the bus numbers of the positions the snapshot returned
ResultIds == {q_res.buses[i].bus_no : i \in 1..Len(q_res.buses)}

\* no ingestor command has run since the snapshot started
NoConcurrentWrite == qTouched = {}

\* the active ids have been read and are still held by the snapshot
ActiveRead == qpc \in {"buses", "motion", "ingest"}

StaleAtStart == {v \in DOMAIN qSeen0 : qSeen0[v] <= Cutoff}

IsRestriction(g, f) == DOMAIN g \subseteq DOMAIN f /\ \A k \in DOMAIN g : g[k] = f[k]

\* C1 as stated: a vehicle written with last-seen = t is returned by a snapshot
\* taken at now = t right after the write, with nothing in between, for every
\* TTL >= 0, TTL = 0 included.
C1_FreshWriteReturnedAnyTTL ==
    (SnapshotOk /\ NoConcurrentWrite) => qJust \subseteq ResultIds

\* C1 amended: a vehicle written with last-seen = t is returned by a snapshot taken
\* at now = t right after the write, with nothing in between, for every TTL > 0;
\* with TTL = 0 it is evicted as stale and not returned.
C1_FreshWriteReturned ==
    (SnapshotOk /\ NoConcurrentWrite) =>
        /\ bus_ttl_ms > 0 => qJust \subseteq ResultIds
        /\ bus_ttl_ms = 0 => qJust \cap (ResultIds \cup DOMAIN last_seen) = {}

C1_Witness ==
    /\ SnapshotOk /\ NoConcurrentWrite
    /\ bus_ttl_ms > 0
    /\ qJust # {}
    /\ qJust \subseteq ResultIds

\* C2: a vehicle whose last-seen is more than TTL before the snapshot's now, and
\* which is not written while the snapshot runs, is not returned by the snapshot
\* and, once the snapshot has completed, is in none of the three indexes.
C2_ExpiredEvicted ==
    SnapshotOk =>
        \A v \in DOMAIN qSeen0 :
            (q_now > qSeen0[v] + bus_ttl_ms /\ v \notin qTouched) =>
                /\ v \notin ResultIds
                /\ v \notin DOMAIN latest
                /\ v \notin DOMAIN motion
                /\ v \notin DOMAIN last_seen

C2_Witness ==
    /\ SnapshotOk
    /\ \E v \in DOMAIN qSeen0 :
          /\ q_now > qSeen0[v] + bus_ttl_ms
          /\ v \notin qTouched
          /\ v \notin DOMAIN last_seen
          /\ bus_ttl_ms > 0

\* C3: every position a snapshot returns belongs to a vehicle whose last-seen, at
\* the moment the snapshot read the active ids, was strictly greater than
\* now - ttl, whatever the ingestor wrote while the snapshot ran.
C3_NoEntryOlderThanTTL ==
    SnapshotOk =>
        \A v \in ResultIds : v \in DOMAIN qSeen /\ qSeen[v] > q_now - bus_ttl_ms

C3_Witness ==
    /\ SnapshotOk
    /\ ResultIds # {}
    /\ qTouched # {}

\* C4 as stated: the active set of a snapshot is exactly the vehicles with
\* now - last_seen <= TTL, and a vehicle with last-seen = now - TTL is not evicted.
C4_ActiveIffWithinTTL ==
    /\ (ActiveRead /\ NoConcurrentWrite) =>
          SeqToSet(q_active) = {v \in DOMAIN qSeen0 : q_now - qSeen0[v] <= bus_ttl_ms}
    /\ (SnapshotOk /\ NoConcurrentWrite) =>
          \A v \in DOMAIN qSeen0 :
              q_now - qSeen0[v] = bus_ttl_ms => v \in DOMAIN last_seen

\* C4 amended: the active set of a snapshot is exactly the vehicles with
\* now - last_seen < TTL; a vehicle with last-seen = now - TTL is evicted and not
\* returned.
C4_ActiveIffInsideTTL ==
    /\ (ActiveRead /\ NoConcurrentWrite) =>
          SeqToSet(q_active) = {v \in DOMAIN qSeen0 : q_now - qSeen0[v] < bus_ttl_ms}
    /\ (SnapshotOk /\ NoConcurrentWrite) =>
          \A v \in DOMAIN qSeen0 :
              q_now - qSeen0[v] = bus_ttl_ms =>
                  v \notin DOMAIN last_seen /\ v \notin ResultIds

C4_Witness ==
    /\ SnapshotOk /\ NoConcurrentWrite
    /\ ResultIds # {}
    /\ \E v \in DOMAIN qSeen0 :
          q_now - qSeen0[v] = bus_ttl_ms /\ v \notin DOMAIN last_seen

\* C5 as stated: no step of a query changes the position hash, the motion hash,
\* the last-seen set or the heartbeat.
C5_QueryLeavesCacheUnchanged ==
    [][QueryNext => UNCHANGED <<latest, motion, last_seen, last_ingest>>]_vars

\* C5 amended: a query changes the cache only by evicting. No step of it changes
\* the heartbeat or the value of an entry; with no concurrent ingestor write the
\* entries it removes belong to vehicles whose last-seen was <= now - TTL when it
\* started, and after an Ok snapshot no entry of such a vehicle is left.
C5_QueryOnlyEvicts ==
    /\ [][QueryNext =>
            /\ last_ingest' = last_ingest
            /\ IsRestriction(latest', latest)
            /\ IsRestriction(motion', motion)
            /\ IsRestriction(last_seen', last_seen)
            /\ NoConcurrentWrite =>
                  ((DOMAIN latest \ DOMAIN latest')
                   \cup (DOMAIN motion \ DOMAIN motion')
                   \cup (DOMAIN last_seen \ DOMAIN last_seen')) \subseteq StaleAtStart
         ]_vars
    /\ []((SnapshotOk /\ NoConcurrentWrite) =>
            StaleAtStart \cap (DOMAIN latest \cup DOMAIN motion \cup DOMAIN last_seen) = {})

C5_Witness ==
    /\ SnapshotOk /\ NoConcurrentWrite
    /\ StaleAtStart # {}
    /\ DOMAIN last_seen # {}

\* C6: with no write and no eviction in flight, every vehicle of the position
\* hash is in the last-seen set with a score >= the receipt time of its position.
C6_PositionImpliesLastSeen ==
    (wpc = "idle" /\ qpc \in {"idle", "done"}) =>
        \A v \in DOMAIN latest :
            v \in DOMAIN last_seen /\ last_seen[v] >= latestAt[v]

\* ------------------------------------------------ ingest of decoded frames
\* the events: frames that fail alone, before and after frames that carry
\* positions, and arrays with entries that are no positions
IngestPayloads ==
    { <<Garbage>>,
      <<NonString, Unparseable>>,
      <<MixedArray(<<None>>)>>,
      <<Parsed(<<BusPosition("B1", 0, 0)>>)>>,
      <<Garbage, Parsed(<<BusPosition("B1", 0, 0)>>)>>,
      <<Parsed(<<BusPosition("B2", 0, 0), BusPosition("", 0, 0)>>), Unparseable>>,
      <<MixedArray(<<Some(BusPosition("B2", 0, 0)), None>>), NonString>> }

\* the client calls on_any for the events of the open socket
OnAnyEvent(payload) ==
    /\ session = "open"
    /\ OnAnyBegin(payload)

\* the rest of the handler when a Redis command fails
OnAnyFailNext ==
    \/ WritePrepareFail
    \/ WritePipeFail
    \/ OnAnyErr

\* the loop connects and stays connected
EstablishNext ==
    \/ RedisConnectOk
    \/ ConnectOk
    \/ SubscribeOk
    \/ MarkConnected

IngestNext ==
    \/ \E payload \in IngestPayloads : OnAnyEvent(payload)
    \/ OnAnyNext
    \/ OnAnyFailNext
    \/ EstablishNext
    \/ Tick

\* the ingest handler alone: events arrive one after another, no query runs
IngestSpec == Init /\ [][IngestNext]_vars

\* the frame is a string that cannot be decoded or that no parse attempt accepts
FrameFails(f) ==
    \/ f.kind \in {"garbage", "unparseable"}
    \/ f.kind = "array" /\ \A i \in 1..Len(f.buses) : f.buses[i] = None

FailingFrames(payload) == Cardinality({i \in 1..Len(payload) : FrameFails(payload[i])})

\* the positions the frames of the payload carry, in order
CarriedPositions(payload) ==
    Concat([i \in 1..Len(payload) |->
               IF payload[i].kind = "buses" THEN payload[i].buses
               ELSE IF payload[i].kind = "array" THEN Concat(payload[i].buses)
               ELSE <<>>])

\* every carried position with a bus number is in the three indexes, the position
\* hash holding the last position the payload carries for that bus number
PayloadWritten(payload, now_ms) ==
    LET carried == CarriedPositions(payload)
    IN  \A i \in 1..Len(carried) :
            carried[i].bus_no # "" =>
                /\ carried[i].bus_no \in DOMAIN latest
                /\ carried[i].bus_no \in DOMAIN motion
                /\ carried[i].bus_no \in DOMAIN last_seen
                /\ last_seen[carried[i].bus_no] = now_ms
                /\ \E j \in i..Len(carried) :
                      /\ carried[j].bus_no = carried[i].bus_no
                      /\ \A k \in (j + 1)..Len(carried) :
                            carried[k].bus_no # carried[i].bus_no
                      /\ latest[carried[i].bus_no] = to_string(carried[j])

\* C11: an event adds to decode_failures exactly the number of its frames that
\* are strings and cannot be decoded or parsed; handling it changes nothing of
\* the connection; and when its write has succeeded every position with a bus
\* number carried by its other frames is in the cache, also after earlier events
\* had failing frames.
C11_DecodeFailureCountedAndDropped ==
    /\ [][\A payload \in IngestPayloads :
            OnAnyEvent(payload) =>
                /\ status'.decode_failures =
                       status.decode_failures + FailingFrames(payload)
                /\ status'.connected = status.connected
                /\ ipc' = ipc /\ session' = session]_vars
    /\ []((wpc = "ok" /\ hPayload # <<>>) => PayloadWritten(hPayload, w_now))

C11_Witness ==
    /\ wpc = "ok"
    /\ FailingFrames(hPayload) = 1
    /\ status.decode_failures = 2
    /\ DOMAIN latest = {"B1", "B2"}
    /\ PayloadWritten(hPayload, w_now)

\* C12: the step that ends a failed batch write adds one to
\* redis_write_failures, leaves buses_written, the connected flag, the loop and
\* the socket as they are, and leaves the handler idle with no command of the
\* batch pending (no retry); a later batch whose write succeeds is in the cache.
C12_WriteFailureCountedNotRetried ==
    /\ [][(wpc = "err" /\ wpc' # "err") =>
            /\ status'.redis_write_failures = status.redis_write_failures + 1
            /\ status'.buses_written = status.buses_written
            /\ status'.connected = status.connected
            /\ status'.reconnect_count = status.reconnect_count
            /\ ipc' = ipc /\ session' = session /\ notified' = notified
            /\ wpc' = "idle" /\ w_pipe' = <<>> /\ w_buses' = <<>>
            /\ UNCHANGED <<latest, motion, last_seen, last_ingest>>]_vars
    /\ []((wpc = "err") => w_pipe = <<>> /\ w_buses = <<>>)
    /\ []((wpc = "ok" /\ status.redis_write_failures > 0) =>
            PayloadWritten(hPayload, w_now))

C12_Witness ==
    /\ wpc = "ok"
    /\ status.redis_write_failures = 1
    /\ status.buses_written = 0
    /\ status.connected
    /\ ipc = "connected"
    /\ hPayload # <<>>
    /\ PayloadWritten(hPayload, w_now)

\* ------------------------------------------------------------ HTTP handlers
ErrorResponse(code) == [kind |-> "error", code |-> code, is_stale |-> FALSE, data |-> <<>>]

\* the handler has built its response from the snapshot and the clock
RespondFrame ==
    /\ qpc' = "answered"
    /\ justWrote' = {}
    /\ UNCHANGED <<q_now, q_pipe, q_active, q_buses, q_motion, q_res, queryHist>>
    /\ UNCHANGED <<clock, bus_ttl_ms, stale_after_ms, gtfs, cacheVars, status,
                   writerVars, loopVars, loopHist, hPayload, hRun, hBefore>>

\* load_active_bus_snapshot(&state).await? : an Err is answered with 500
Answer(response) ==
    /\ qpc = "done"
    /\ resp' = IF q_res.ok THEN response ELSE ErrorResponse(500)
    /\ RespondFrame

\* get_route_eta (lines 941-954, 1152-1177); request holds the path parameters
\* the response answers
GetRouteEta(route_id, stop_id) ==
    Answer(LET eta == RouteEtaOf(q_res, gtfs, route_id, stop_id, clock)
           IN  IF eta.ok
               THEN [kind |-> "route_eta", code |-> 200, is_stale |-> FALSE,
                     data |-> eta.value, request |-> <<route_id, stop_id>>]
               ELSE [kind |-> "error", code |-> 404, is_stale |-> FALSE,
                     data |-> <<>>, request |-> <<route_id, stop_id>>,
                     error |-> eta.value])

\* get_t789_eta (lines 878-889): the route ETA of the target route and stop
RouteEtaRespond == GetRouteEta(TargetRoute, TargetStop)

\* get_stop_eta for the target stop (lines 956-970)
StopEtaRespond ==
    Answer([kind |-> "stop_eta", code |-> 200, is_stale |-> FALSE,
            data |-> calculate_stop_eta_from_snapshot(q_res, gtfs, TargetStop, clock)])

\* lines 352-356 and 912-916: is_stale from the snapshot's heartbeat
IsStale(last_ingest_at_unix_ms, now_ms) ==
    IF last_ingest_at_unix_ms # None
    THEN now_ms - last_ingest_at_unix_ms[1] > stale_after_ms
    ELSE TRUE

\* fetch_all_buses (lines 350-373)
FetchAllRespond ==
    Answer([kind |-> "get_all", code |-> 200,
            is_stale |-> IsStale(q_res.last_ingest_at_unix_ms, clock),
            data |-> q_res.buses])

\* get_pantai_hillpark_phase_5_eta (lines 891-939), the stop being the target stop
StopIncomingRespond ==
    Answer(IF \A i \in 1..Len(gtfs) : FindStop(gtfs[i].stops, TargetStop) = 0
           THEN ErrorResponse(404)
           ELSE [kind |-> "stop_incoming", code |-> 200,
                 is_stale |-> IsStale(q_res.last_ingest_at_unix_ms, clock),
                 data |-> calculate_stop_eta_from_snapshot(q_res, gtfs, TargetStop,
                                                           clock)])

\* lines 851-864: each visible vehicle of route T789 with its resolved stop
RECURSIVE RouteBusPositions(_, _)
RouteBusPositions(buses, route_stops) ==
    IF buses = <<>> THEN <<>>
    ELSE (IF is_t789_route(Head(buses).route)
          THEN <<[bus |-> Head(buses),
                  bus_no |-> Head(buses).bus_no,
                  resolved_stop |-> resolve_current_stop(Head(buses), route_stops)]>>
          ELSE <<>>)
         \o RouteBusPositions(Tail(buses), route_stops)

\* get_route_t789 (lines 834-875)
RouteT789Respond ==
    Answer(LET visible_buses == filter_non_stationary_buses(q_res, clock)
               route_stops == get_stops_by_route(TargetRoute, gtfs)
           IN  IF ~route_stops.ok THEN ErrorResponse(404)
               ELSE [kind |-> "route_t789", code |-> 200, is_stale |-> FALSE,
                     data |-> RouteBusPositions(visible_buses, route_stops.value)])

\* get_ingestor_status (lines 481-483): a clone of the record under the read lock
GetIngestorStatus ==
    /\ qpc = "idle"
    /\ resp' = [kind |-> "status", code |-> 200, is_stale |-> FALSE, data |-> status]
    /\ RespondFrame

\* the handler returns: the response goes to the client, the snapshot is dropped
ResponseSent ==
    /\ qpc = "answered"
    /\ resp' = NoResponse
    /\ QueryReset
    /\ justWrote' = {}
    /\ UNCHANGED <<clock, bus_ttl_ms, stale_after_ms, gtfs, cacheVars, status,
                   writerVars, loopVars, loopHist, hPayload, hRun, hBefore>>

\* --------------------------------------------------- samples of one vehicle
MotionLatitudes == {0, 1, 3}
MotionSpeeds == {0, 1, 2}

\* one position of B1 per event: at the anchor, 0.01 km or 0.03 km from it
MotionPayloads ==
    {<<Parsed(<<BusPosition("B1", lat, speed)>>)>> :
        lat \in MotionLatitudes, speed \in MotionSpeeds}

\* the run of samples at speed 0 and one place after the sample bus taken at now_ms
NextRun(run, bus, now_ms) ==
    IF bus.speed # 0 THEN None
    ELSE IF run # None /\ run[1].latitude = bus.latitude
    THEN Some([run[1] EXCEPT !.last = now_ms,
                             !.gap = IF now_ms - run[1].last > @
                                     THEN now_ms - run[1].last ELSE @])
    ELSE Some([first |-> now_ms, last |-> now_ms, gap |-> 0,
               latitude |-> bus.latitude])

\* an event arrives while no request is being served
MotionSample(payload) ==
    /\ qpc = "idle"
    /\ OnAnyHandle(payload, MaxSamples)
    /\ hRun' = NextRun(hRun, payload[1].buses[1], clock)
    /\ UNCHANGED hBefore

\* a request arrives while no event is being handled
MotionQueryStart ==
    /\ wpc = "idle"
    /\ QueryStart

\* time passes between events and requests, and between a request's snapshot and
\* its filter
MotionTick ==
    /\ wpc = "idle"
    /\ qpc \in {"idle", "done"}
    /\ clock < MaxMotionTime
    /\ clock' = clock + 1
    /\ justWrote' = {}
    /\ UNCHANGED <<bus_ttl_ms, serveVars, hRun, hBefore, cacheVars, status, writerVars,
                   queryVars, queryHist, loopVars, loopHist, hPayload>>

MotionInit ==
    /\ Start
    /\ bus_ttl_ms \in 0..MaxMotionTTL
    /\ stale_after_ms = 0

MotionNext ==
    \/ \E payload \in MotionPayloads : MotionSample(payload)
    \/ OnAnyNext
    \/ MotionQueryStart
    \/ QueryReadStale
    \/ QueryEvictStep
    \/ QueryReadActive
    \/ QueryFetchBuses
    \/ QueryFetchMotion
    \/ QueryGetIngest
    \/ RouteEtaRespond
    \/ StopEtaRespond
    \/ ResponseSent
    \/ MotionTick

\* one vehicle sampled again and again; events and requests are handled one at a
\* time
MotionSpec == MotionInit /\ [][MotionNext]_vars

\* ------------------------------------------ properties of the classifier
\* the pipeline of the write in flight is about to store a motion state
MotionPending == wpc = "pipe" /\ w_pipe # <<>> /\ Head(w_pipe).key = "motion"

\* the sample being written, the state stored for its vehicle before the write,
\* and the state the write stores
Sample == hPayload[1].buses[1]
PriorMotion ==
    IF Head(w_pipe).field \in DOMAIN motion
    THEN from_str(motion[Head(w_pipe).field]) ELSE None
NewMotion == from_str(Head(w_pipe).value)[1]

\* the distance of the sample from the prior anchor, 0 on a first sighting
Drift ==
    IF PriorMotion = None THEN 0
    ELSE Abs(Sample.latitude - PriorMotion[1].reference_lat)
         + Abs(Sample.longitude - PriorMotion[1].reference_lon)

AnchorAtSample ==
    /\ NewMotion.reference_lat = Sample.latitude
    /\ NewMotion.reference_lon = Sample.longitude

AnchorKept ==
    IF PriorMotion = None THEN AnchorAtSample
    ELSE /\ NewMotion.reference_lat = PriorMotion[1].reference_lat
         /\ NewMotion.reference_lon = PriorMotion[1].reference_lon

\* C13 as stated: a sample above 1.0 km/h less than 0.03 km from the prior
\* anchor is stored with the prior anchor unchanged and stationary_since none.
C13_FastSmallDriftKeepsAnchor ==
    (MotionPending /\ PriorMotion # None
        /\ Drift < STATIONARY_DISTANCE_THRESHOLD_KM
        /\ Sample.speed > STATIONARY_SPEED_THRESHOLD_KMH) =>
            AnchorKept /\ NewMotion.stationary_since_unix_ms = None

\* C13 amended: a sample above 1.0 km/h less than 0.03 km from the prior anchor
\* is stored with the anchor at the sample's coordinates and stationary_since
\* none.
C13_FastSmallDriftMovesAnchor ==
    (MotionPending /\ PriorMotion # None
        /\ Drift < STATIONARY_DISTANCE_THRESHOLD_KM
        /\ Sample.speed > STATIONARY_SPEED_THRESHOLD_KMH) =>
            AnchorAtSample /\ NewMotion.stationary_since_unix_ms = None

C13_Witness ==
    /\ MotionPending /\ PriorMotion # None
    /\ Drift = 1
    /\ Sample.speed = 2
    /\ PriorMotion[1].stationary_since_unix_ms # None
    /\ NewMotion.reference_lat # PriorMotion[1].reference_lat
    /\ NewMotion.stationary_since_unix_ms = None

\* C14: a sample 0.03 km or more from the prior anchor is stored with the anchor
\* at its own coordinates and with stationary_since = now when its speed is at
\* most 1.0 km/h, none otherwise, whatever stationary_since was before.
C14_DisplacementResetsAnchor ==
    (MotionPending /\ Drift >= STATIONARY_DISTANCE_THRESHOLD_KM) =>
        /\ AnchorAtSample
        /\ NewMotion.stationary_since_unix_ms =
               IF Sample.speed <= STATIONARY_SPEED_THRESHOLD_KMH
               THEN Some(w_now) ELSE None

C14_Witness ==
    /\ MotionPending
    /\ Drift = STATIONARY_DISTANCE_THRESHOLD_KM
    /\ Sample.speed = STATIONARY_SPEED_THRESHOLD_KMH
    /\ PriorMotion[1].stationary_since_unix_ms # None
    /\ PriorMotion[1].stationary_since_unix_ms[1] < w_now
    /\ NewMotion.stationary_since_unix_ms = Some(w_now)
    /\ AnchorAtSample

\* C15: a sample at most 1.0 km/h less than 0.03 km from the reference is stored
\* with the anchor kept (its own coordinates on a first sighting) and with the
\* prior stationary_since when one was set, now otherwise; the stored dwell start
\* is never later than the one it replaces.
C15_DwellKeepsStart ==
    (MotionPending /\ Drift < STATIONARY_DISTANCE_THRESHOLD_KM
        /\ Sample.speed <= STATIONARY_SPEED_THRESHOLD_KMH) =>
            /\ AnchorKept
            /\ NewMotion.stationary_since_unix_ms =
                   IF PriorMotion # None /\ PriorMotion[1].stationary_since_unix_ms # None
                   THEN PriorMotion[1].stationary_since_unix_ms
                   ELSE Some(w_now)
            /\ (PriorMotion # None /\ PriorMotion[1].stationary_since_unix_ms # None) =>
                   NewMotion.stationary_since_unix_ms[1]
                       <= PriorMotion[1].stationary_since_unix_ms[1]

C15_Witness ==
    /\ MotionPending /\ PriorMotion # None
    /\ Drift = 1
    /\ Sample.speed = 1
    /\ PriorMotion[1].stationary_since_unix_ms # None
    /\ PriorMotion[1].stationary_since_unix_ms[1] < w_now
    /\ NewMotion.stationary_since_unix_ms = PriorMotion[1].stationary_since_unix_ms
    /\ NewMotion.reference_lat # Sample.latitude

\* C17: a stored sample above 1.0 km/h has stationary_since none, whatever the
\* state before it and wherever it is; and a request that finds such a sample as
\* the vehicle's position does not classify the vehicle stationary at any time and
\* gives it an ETA.
C17_FastNeverStationary ==
    /\ (MotionPending /\ Sample.speed > STATIONARY_SPEED_THRESHOLD_KMH) =>
           NewMotion.stationary_since_unix_ms = None
    /\ (qpc = "answered" /\ resp.kind \in {"route_eta", "stop_eta"}) =>
           \A i \in 1..Len(q_res.buses) :
               q_res.buses[i].speed > STATIONARY_SPEED_THRESHOLD_KMH =>
                   /\ \A t \in 0..(MaxMotionTime + STATIONARY_WINDOW_MS) :
                          ~is_bus_stationary(q_res, q_res.buses[i].bus_no, t)
                   /\ \E k \in 1..Len(resp.data) :
                          resp.data[k].bus_no = q_res.buses[i].bus_no

C17_Witness ==
    /\ qpc = "answered" /\ resp.kind = "route_eta"
    /\ Len(q_res.buses) = 1
    /\ q_res.buses[1].speed = 2
    /\ status.messages_processed = MaxSamples
    /\ clock >= STATIONARY_WINDOW_MS
    /\ last_seen["B1"] = clock
    /\ Len(resp.data) = 1

\* ------------------------------------------------- the filter on a snapshot
FilterBuses ==
    {<<>>, <<BusPosition("B1", 0, 0)>>, <<BusPosition("B2", 0, 0)>>,
     <<BusPosition("B1", 0, 0), BusPosition("B2", 0, 0)>>}

MotionEntries ==
    {[reference_lat |-> 0, reference_lon |-> 0, stationary_since_unix_ms |-> since] :
        since \in {None} \cup {Some(t) : t \in 0..MaxMotionTime}}

\* the snapshots a request can hold: each active vehicle with or without a
\* motion state (an eviction that overlaps a write leaves positions without one)
FilterSnapshots ==
    {[ok |-> TRUE, buses |-> buses, motion_states |-> states,
      active_bus_count |-> Len(buses), last_ingest_at_unix_ms |-> None] :
        buses \in FilterBuses,
        states \in UNION {[S -> MotionEntries] : S \in SUBSET Vehicles}}

\* a request holds a snapshot and is about to filter it
FilterInit ==
    /\ clock \in 0..MaxMotionTime
    /\ bus_ttl_ms = MaxMotionTTL
    /\ stale_after_ms = 0
    /\ CacheEmpty
    /\ status = InitialStatus
    /\ WriterIdle
    /\ LoopStart
    /\ resp = NoResponse
    /\ gtfs = Gtfs
    /\ hRun = None
    /\ hBefore = None
    /\ qpc = "done" /\ q_now = 0 /\ q_pipe = <<>> /\ q_active = <<>>
    /\ q_buses = <<>> /\ q_motion = EmptyMap
    /\ q_res \in FilterSnapshots
    /\ qSeen0 = EmptyMap /\ qSeen = EmptyMap /\ qJust = {} /\ qTouched = {}

FilterNext ==
    \/ RouteEtaRespond
    \/ StopEtaRespond
    \/ ResponseSent

FilterSpec == FilterInit /\ [][FilterNext]_vars

\* the vehicle has no record in the ETA response
AbsentFromEta(bus_no) == \A k \in 1..Len(resp.data) : resp.data[k].bus_no # bus_no

\* C16: a vehicle of the snapshot is left out of the ETA response if and only if
\* the snapshot has a motion state for it whose stationary_since is set and lies
\* STATIONARY_WINDOW_MS or more before now; a vehicle with no motion state is in
\* the response.
C16_StationaryIffDwellWindow ==
    (qpc = "answered" /\ resp.kind \in {"route_eta", "stop_eta"}) =>
        \A i \in 1..Len(q_res.buses) :
            LET bus_no == q_res.buses[i].bus_no
            IN  AbsentFromEta(bus_no) <=>
                    /\ bus_no \in DOMAIN q_res.motion_states
                    /\ q_res.motion_states[bus_no].stationary_since_unix_ms # None
                    /\ clock - q_res.motion_states[bus_no].stationary_since_unix_ms[1]
                           >= STATIONARY_WINDOW_MS

C16_Witness ==
    /\ qpc = "answered" /\ resp.kind = "stop_eta"
    /\ Len(q_res.buses) = 2
    /\ DOMAIN q_res.motion_states = {"B1"}
    /\ q_res.motion_states["B1"].stationary_since_unix_ms
           = Some(clock - STATIONARY_WINDOW_MS)
    /\ AbsentFromEta("B1")
    /\ ~AbsentFromEta("B2")

\* ------------------------------------------------ a vehicle that stands still
\* the samples of B1 since it last moved or changed speed are all at 0 km/h and at
\* one place, span STATIONARY_WINDOW_MS or more, and the request is answered
\* STATIONARY_WINDOW_MS or more after the first of them
StandingRun ==
    /\ hRun # None
    /\ hRun[1].last - hRun[1].first >= STATIONARY_WINDOW_MS
    /\ clock - hRun[1].first >= STATIONARY_WINDOW_MS

\* the request classifies B1 stationary if it has it, and gives it no ETA
StationaryForRequest ==
    /\ AbsentFromEta("B1")
    /\ \A i \in 1..Len(q_res.buses) :
           q_res.buses[i].bus_no = "B1" => is_bus_stationary(q_res, "B1", clock)

\* C18 as stated: with no gap between the samples longer than the TTL, every
\* route ETA and stop ETA request answered 60 s or more after the first sample
\* classifies the vehicle stationary and leaves it out.
C18_StandingVehicleFiltered ==
    (qpc = "answered" /\ resp.kind \in {"route_eta", "stop_eta"}
        /\ StandingRun /\ hRun[1].gap <= bus_ttl_ms) => StationaryForRequest

\* C18 amended: with every gap between the samples shorter than the TTL.
C18_StandingVehicleFilteredInsideTTL ==
    (qpc = "answered" /\ resp.kind \in {"route_eta", "stop_eta"}
        /\ StandingRun /\ hRun[1].gap < bus_ttl_ms) => StationaryForRequest

C18_Witness ==
    /\ qpc = "answered" /\ resp.kind = "stop_eta"
    /\ StandingRun /\ hRun[1].gap < bus_ttl_ms
    /\ hRun[1].gap > 0
    /\ Len(q_res.buses) = 1
    /\ is_bus_stationary(q_res, "B1", clock)
    /\ resp.data = <<>>

\* --------------------------------------------------------------- staleness
\* an event with one position of B1 arrives while no request is being served
ServeSample ==
    /\ qpc = "idle"
    /\ OnAnyHandle(<<Parsed(<<BusPosition("B1", 0, 0)>>)>>, MaxMsgs)
    /\ UNCHANGED <<hRun, hBefore>>

ServeInit ==
    /\ Start
    /\ bus_ttl_ms = MaxMotionTTL
    /\ stale_after_ms \in 0..MaxStale

ServeNext ==
    \/ ServeSample
    \/ OnAnyNext
    \/ MotionQueryStart
    \/ QueryReadStale
    \/ QueryEvictStep
    \/ QueryReadActive
    \/ QueryFetchBuses
    \/ QueryFetchMotion
    \/ QueryGetIngest
    \/ QueryFail
    \/ FetchAllRespond
    \/ StopIncomingRespond
    \/ ResponseSent
    \/ MotionTick

\* the handlers that report is_stale, events and requests handled one at a time
ServeSpec == ServeInit /\ [][ServeNext]_vars

\* C19: the response says is_stale exactly when the cache holds no heartbeat or
\* the heartbeat lies more than stale_after before now; at exactly stale_after
\* the response is not stale.
C19_StaleIffHeartbeatOld ==
    (qpc = "answered" /\ resp.kind \in {"get_all", "stop_incoming"}) =>
        (resp.is_stale <=>
            \/ last_ingest = None
            \/ clock - last_ingest[1] > stale_after_ms)

\* the snapshot answered was built without the heartbeat the cache holds: its
\* GET failed (no event is handled while a request is served)
HeartbeatReadFailed ==
    q_res.ok /\ q_res.last_ingest_at_unix_ms = None /\ last_ingest # None

\* a request whose connection or command failed before the heartbeat read is
\* answered with 500 and no data
FailedQueryIs500 ==
    (qpc = "answered" /\ ~q_res.ok) =>
        (resp.kind = "error" /\ resp.code = 500 /\ resp.data = <<>>)

\* C26: a request during which a cache-store command failed, the read of the
\* heartbeat included, is answered with the error 500 and never with a success
\* response built from what was read.
C26_CacheErrorIs500 ==
    (qpc = "answered" /\ (~q_res.ok \/ HeartbeatReadFailed)) =>
        (resp.kind = "error" /\ resp.code = 500)

\* --------------------------------------------------------- stop resolution
\* positions 0, 0.1, 0.8, 0.85, 1.5 and 2 km along the meridian that report no
\* stop, an empty stop id, a stop of the route, or a stop that is not of the route
ResolveBuses ==
    {[BusPosition("B1", lat, 0) EXCEPT !.busstop_id = id] :
        lat \in {0, 10, 80, 85, 150, 200},
        id \in {None, Some(""), Some("S1"), Some("S2"), Some("S9")}}

\* stops a route may visit, S1 twice
ResolveStops ==
    << StopWithDetails("S1", 1, 0), StopWithDetails("S2", 2, 10),
       StopWithDetails("S1", 3, 200), StopWithDetails("S3", 4, 100) >>

RECURSIVE SubSeqs(_)
SubSeqs(s) ==
    IF s = <<>> THEN {<<>>}
    ELSE LET rest == SubSeqs(Tail(s))
         IN  rest \cup {<<Head(s)>> \o r : r \in rest}

\* the schedules: route T7890 with any of these stops, in sequence order
ResolveSchedules ==
    {<<RouteStopsResponse(TargetRoute, stops)>> : stops \in SubSeqs(ResolveStops)}

\* a request for the vehicles of route T789 holds a snapshot of one vehicle
ResolveInit ==
    /\ clock = 0
    /\ bus_ttl_ms = MaxMotionTTL
    /\ stale_after_ms = 0
    /\ CacheEmpty
    /\ status = InitialStatus
    /\ WriterIdle
    /\ LoopStart
    /\ resp = NoResponse
    /\ gtfs \in ResolveSchedules
    /\ hRun = None
    /\ hBefore = None
    /\ qpc = "done" /\ q_now = 0 /\ q_pipe = <<>> /\ q_active = <<>>
    /\ q_buses = <<>> /\ q_motion = EmptyMap
    /\ \E bus \in ResolveBuses :
          q_res = [ok |-> TRUE, buses |-> <<bus>>, motion_states |-> EmptyMap,
                   active_bus_count |-> 1, last_ingest_at_unix_ms |-> None]
    /\ qSeen0 = EmptyMap /\ qSeen = EmptyMap /\ qJust = {} /\ qTouched = {}

ResolveNext ==
    \/ RouteT789Respond
    \/ ResponseSent

ResolveSpec == ResolveInit /\ [][ResolveNext]_vars

\* the stops of the route have one with this stop id
OnRoute(stop_id) ==
    \E i \in 1..Len(gtfs[1].stops) : gtfs[1].stops[i].stop_id = stop_id

\* C20: a position that reports a non-empty stop id found among the route's stops
\* is resolved to a stop with that id and provenance Live, the sequence being
\* that of a stop of the route with this id, however far the position is from
\* it and whichever stop is nearest.
C20_ReportedStopIsLive ==
    (qpc = "answered" /\ resp.kind = "route_t789") =>
        \A i \in 1..Len(resp.data) :
            LET bus == resp.data[i].bus
                resolved_stop == resp.data[i].resolved_stop
            IN  (bus.busstop_id # None /\ bus.busstop_id[1] # ""
                    /\ OnRoute(bus.busstop_id[1])) =>
                    /\ resolved_stop # None
                    /\ resolved_stop[1].stop_id = bus.busstop_id[1]
                    /\ resolved_stop[1].source = "Live"
                    /\ \E k \in 1..Len(gtfs[1].stops) :
                          /\ gtfs[1].stops[k].stop_id = bus.busstop_id[1]
                          /\ gtfs[1].stops[k].sequence = resolved_stop[1].sequence

C20_Witness ==
    /\ qpc = "answered" /\ resp.kind = "route_t789"
    /\ Len(resp.data) = 1
    /\ resp.data[1].bus.busstop_id = Some("S2")
    /\ resp.data[1].bus.latitude = 200
    /\ Len(gtfs[1].stops) = 4
    /\ resp.data[1].resolved_stop =
           Some([stop_id |-> "S2", sequence |-> 2, source |-> "Live"])

\* the position reports no stop of the route: none, an empty id, or an unknown id
NoReportedStopOnRoute(bus) ==
    \/ bus.busstop_id = None
    \/ bus.busstop_id[1] = ""
    \/ ~OnRoute(bus.busstop_id[1])

\* C21: a position that reports no stop of the route is resolved to the nearest
\* stop of the sequence with provenance Derived when that stop is at most
\* 0.75 km away, the first one in sequence order among the stops at the least
\* distance, and to no stop when the nearest stop is farther than 0.75 km or the
\* route has no stops.
C21_NearestStopWithinLimit ==
    (qpc = "answered" /\ resp.kind = "route_t789") =>
        \A i \in 1..Len(resp.data) :
            LET bus == resp.data[i].bus
                resolved_stop == resp.data[i].resolved_stop
                stops == gtfs[1].stops
                Least(k) == \A j \in 1..Len(stops) :
                                Abs(stops[k].stop_lat - bus.latitude)
                                    <= Abs(stops[j].stop_lat - bus.latitude)
            IN  NoReportedStopOnRoute(bus) =>
                    IF \A k \in 1..Len(stops) :
                          Abs(stops[k].stop_lat - bus.latitude) > 75
                    THEN resolved_stop = None
                    ELSE \E k \in 1..Len(stops) :
                            /\ Least(k)
                            /\ \A j \in 1..(k - 1) : ~Least(j)
                            /\ resolved_stop = Some([stop_id |-> stops[k].stop_id,
                                                     sequence |-> stops[k].sequence,
                                                     source |-> "Derived"])

\* a position 1.5 km up the meridian, as far from the stop at 2 km as from the
\* later stop at 1 km, resolved to the first of them
C21_Witness ==
    /\ qpc = "answered" /\ resp.kind = "route_t789"
    /\ Len(resp.data) = 1
    /\ resp.data[1].bus.latitude = 150
    /\ resp.data[1].bus.busstop_id = Some("S9")
    /\ Len(gtfs[1].stops) = 4
    /\ resp.data[1].resolved_stop # None
    /\ resp.data[1].resolved_stop[1].sequence = 3
    /\ resp.data[1].resolved_stop[1].source = "Derived"

\* a position exactly 0.75 km from the only stop of the route, resolved to it
C21_WitnessAtLimit ==
    /\ qpc = "answered" /\ resp.kind = "route_t789"
    /\ Len(resp.data) = 1
    /\ resp.data[1].bus.latitude = 85
    /\ resp.data[1].bus.busstop_id = None
    /\ Len(gtfs[1].stops) = 1
    /\ resp.data[1].resolved_stop # None

\* ------------------------------------------------------------ ETA requests
\* route codes of the feed: T789 in three spellings, a different route, a code
\* that differs in its last character, no code, and a code of zeros only
EtaRouteCodes ==
    { <<"T", "7", "8", "9">>, <<"t", "7", "8", "9">>,
      <<" ", "T", "7", "8", "9", "0", "0">>, <<"T", "7", "8">>,
      <<"T", "7", "8", "9", "1">>, <<>>, <<"0">> }

OtherRoute == <<"T", "7", "8">>
ZeroRoute == <<"0">>

\* the route ids a request may name
EtaRouteIds == {TargetRoute, OtherRoute, ZeroRoute}

\* the first vehicle of a snapshot: at a stop, between stops or 2 km away, with a
\* negative, zero or positive speed, reporting no stop or stop S3
EtaFirstBuses ==
    {[BusPosition("B1", lat, speed) EXCEPT !.route = route, !.busstop_id = id] :
        lat \in {0, 10, 200}, speed \in {-1, 0, 7, 30},
        route \in EtaRouteCodes, id \in {None, Some("S3")}}

\* the second vehicle, on either route
EtaSecondBuses ==
    {[BusPosition("B2", lat, speed) EXCEPT !.route = route] :
        lat \in {0, 10}, speed \in {0, 7, 30}, route \in {FeedRoute, OtherRoute}}

\* the stops of a route: 3 km apart; with gaps in the sequence numbers; without
\* the target stop; with the target stop first; listed out of sequence order,
\* with a detour before the target stop and a stop beyond it
EtaStopLists ==
    << << StopWithDetails("S1", 1, 0), StopWithDetails("S2", 2, 300) >>,
       << StopWithDetails("S1", 1, 0), StopWithDetails("S3", 3, 10),
          StopWithDetails("S2", 5, 30) >>,
       << StopWithDetails("S1", 1, 0), StopWithDetails("S3", 2, 10) >>,
       << StopWithDetails("S2", 1, 10), StopWithDetails("S1", 2, 0) >>,
       << StopWithDetails("S4", 4, 50), StopWithDetails("S5", 7, 100),
          StopWithDetails("S1", 1, 0), StopWithDetails("S3", 3, 10),
          StopWithDetails("S2", 5, 30) >> >>

\* the schedules: one or two routes, the target stop on both, on one or on none
EtaSchedules ==
    {<<RouteStopsResponse(TargetRoute, EtaStopLists[k])>> : k \in 1..Len(EtaStopLists)}
    \cup
    { << RouteStopsResponse(TargetRoute, EtaStopLists[2]),
         RouteStopsResponse(OtherRoute, EtaStopLists[2]) >>,
      << RouteStopsResponse(OtherRoute, EtaStopLists[1]),
         RouteStopsResponse(TargetRoute, EtaStopLists[2]) >>,
      << RouteStopsResponse(TargetRoute, EtaStopLists[1]),
         RouteStopsResponse(OtherRoute, EtaStopLists[3]) >>,
      << RouteStopsResponse(ZeroRoute, EtaStopLists[2]),
         RouteStopsResponse(TargetRoute, EtaStopLists[2]) >>,
      << RouteStopsResponse(OtherRoute, EtaStopLists[3]),
         RouteStopsResponse(TargetRoute, EtaStopLists[3]) >> }

\* an ETA request holds a snapshot of one or two vehicles, none of them stationary
EtaInit ==
    /\ clock = 0
    /\ bus_ttl_ms = MaxMotionTTL
    /\ stale_after_ms = 0
    /\ CacheEmpty
    /\ status = InitialStatus
    /\ WriterIdle
    /\ LoopStart
    /\ resp = NoResponse
    /\ gtfs \in EtaSchedules
    /\ hRun = None
    /\ hBefore = None
    /\ qpc = "done" /\ q_now = 0 /\ q_pipe = <<>> /\ q_active = <<>>
    /\ q_buses = <<>> /\ q_motion = EmptyMap
    /\ \E buses \in {<<first>> : first \in EtaFirstBuses}
                    \cup {<<first, second>> :
                             first \in EtaFirstBuses, second \in EtaSecondBuses} :
          q_res = [ok |-> TRUE, buses |-> buses, motion_states |-> EmptyMap,
                   active_bus_count |-> Len(buses), last_ingest_at_unix_ms |-> None]
    /\ qSeen0 = EmptyMap /\ qSeen = EmptyMap /\ qJust = {} /\ qTouched = {}

EtaNext ==
    \/ \E route_id \in EtaRouteIds : GetRouteEta(route_id, TargetStop)
    \/ StopEtaRespond
    \/ ResponseSent

EtaSpec == EtaInit /\ [][EtaNext]_vars

\* the stops of the route with this id in the schedule
StopsOf(route_id) == get_stops_by_route(route_id, gtfs).value.stops

\* the sequence number of the first stop of the route with this stop id
SequenceOf(route_id, stop_id) ==
    StopsOf(route_id)[FindStop(StopsOf(route_id), stop_id)].sequence

EtaAnswered == qpc = "answered" /\ resp.kind \in {"route_eta", "stop_eta"}

\* C22: every ETA record has stops_away = target sequence - current sequence,
\* which is at least 1; a vehicle of the snapshot that resolves to no stop of
\* the route, or to a stop whose sequence is at or past the target's, has no
\* record in the route's ETA.
C22_StopsAwayPositive ==
    /\ EtaAnswered =>
          \A i \in 1..Len(resp.data) :
              LET eta == resp.data[i]
              IN  /\ eta.stops_away
                        = SequenceOf(eta.route_id, TargetStop) - eta.current_sequence
                  /\ eta.stops_away >= 1
    /\ (qpc = "answered" /\ resp.kind = "route_eta") =>
          \A b \in 1..Len(q_res.buses) :
              LET route_id == resp.request[1]
                  resolved_stop ==
                      resolve_current_stop(q_res.buses[b],
                                           get_stops_by_route(route_id, gtfs).value)
              IN  (\/ resolved_stop = None
                   \/ resolved_stop[1].sequence >= SequenceOf(route_id, TargetStop))
                  => \A i \in 1..Len(resp.data) :
                         resp.data[i].bus_no # q_res.buses[b].bus_no

\* the first vehicle, 2 km from every stop, has no record; the second one, at
\* the stop of sequence 1, is 4 sequence numbers from the target
C22_Witness ==
    /\ qpc = "answered" /\ resp.kind = "route_eta"
    /\ Len(q_res.buses) = 2
    /\ q_res.buses[1].route = FeedRoute
    /\ q_res.buses[1].latitude = 200
    /\ Len(resp.data) = 1
    /\ resp.data[1].bus_no = "B2"
    /\ resp.data[1].stops_away = 4

\* a vehicle at the target stop itself has no record
C22_WitnessAtTarget ==
    /\ qpc = "answered" /\ resp.kind = "route_eta"
    /\ resp.request[1] = TargetRoute
    /\ Len(q_res.buses) = 1
    /\ q_res.buses[1].route = FeedRoute
    /\ q_res.buses[1].latitude = 10
    /\ gtfs[1].stops = EtaStopLists[4]
    /\ resp.data = <<>>

\* the place of a vehicle in the snapshot and of a route in the schedule
SnapshotIndex(bus_no) ==
    CHOOSE b \in 1..Len(q_res.buses) : q_res.buses[b].bus_no = bus_no

ScheduleIndex(route_id) ==
    CHOOSE r \in 1..Len(gtfs) :
        /\ gtfs[r].route_id = route_id
        /\ \A k \in 1..(r - 1) : gtfs[k].route_id # route_id

\* C23: the route ETA list and the stop-aggregate ETA list are sorted
\* non-decreasing by eta_minutes, and records of equal eta_minutes keep the order
\* they had before the sort: the order of the vehicles in the snapshot for a
\* route, and route by route in schedule order for the stop aggregate.
C23_SortedStable ==
    EtaAnswered =>
        \A i, j \in 1..Len(resp.data) :
            i < j =>
                /\ resp.data[i].eta_minutes <= resp.data[j].eta_minutes
                /\ resp.data[i].eta_minutes = resp.data[j].eta_minutes =>
                      LET ri == ScheduleIndex(resp.data[i].route_id)
                          rj == ScheduleIndex(resp.data[j].route_id)
                          bi == SnapshotIndex(resp.data[i].bus_no)
                          bj == SnapshotIndex(resp.data[j].bus_no)
                      IN  ri < rj \/ (ri = rj /\ bi < bj)

\* two vehicles of one route with the same eta_minutes, in snapshot order
C23_Witness ==
    /\ qpc = "answered" /\ resp.kind = "route_eta"
    /\ Len(resp.data) = 2
    /\ resp.data[1].eta_minutes = resp.data[2].eta_minutes
    /\ resp.data[1].bus_no = "B1"

\* the later vehicle of the snapshot arrives sooner and is listed first
C23_WitnessSwapped ==
    /\ qpc = "answered" /\ resp.kind = "route_eta"
    /\ Len(resp.data) = 2
    /\ resp.data[1].eta_minutes < resp.data[2].eta_minutes
    /\ resp.data[1].bus_no = "B2"

\* the stop aggregate: equal eta_minutes on two routes, listed in route order
C23_WitnessAggregate ==
    /\ qpc = "answered" /\ resp.kind = "stop_eta"
    /\ Len(resp.data) = 2
    /\ resp.data[1].eta_minutes = resp.data[2].eta_minutes
    /\ resp.data[1].bus_no = "B2"

\* the route ETA answered has a record of this vehicle
HasRecord(bus_no) == \E i \in 1..Len(resp.data) : resp.data[i].bus_no = bus_no

\* the vehicle resolves to a stop of the requested route before the target stop
BeforeTarget(bus) ==
    LET route_id == resp.request[1]
        resolved_stop ==
            resolve_current_stop(bus, get_stops_by_route(route_id, gtfs).value)
    IN  /\ resolved_stop # None
        /\ resolved_stop[1].sequence < SequenceOf(route_id, resp.request[2])

\* C24 as claimed: a vehicle before the target has a record in the route's ETA
\* exactly when its route code and the route id are equal after trimming,
\* upper-casing and removing trailing zeros, and a vehicle whose normalized code
\* differs has no record.
C24_CandidateIffCodesEqual ==
    (qpc = "answered" /\ resp.kind = "route_eta") =>
        \A b \in 1..Len(q_res.buses) :
            LET bus == q_res.buses[b]
                same == normalize_route_code(bus.route)
                            = normalize_route_code(resp.request[1])
            IN  /\ BeforeTarget(bus) => (HasRecord(bus.bus_no) <=> same)
                /\ ~same => ~HasRecord(bus.bus_no)

\* C24: a vehicle before the target has a record in the route's ETA exactly when
\* its route code and the route id are equal and not empty after trimming,
\* upper-casing and removing trailing zeros; a vehicle whose normalized code
\* differs has no record.
C24_CandidateIffCodesEqualNonEmpty ==
    (qpc = "answered" /\ resp.kind = "route_eta") =>
        \A b \in 1..Len(q_res.buses) :
            LET bus == q_res.buses[b]
                same == normalize_route_code(bus.route)
                            = normalize_route_code(resp.request[1])
                empty == normalize_route_code(bus.route) = <<>>
            IN  /\ BeforeTarget(bus) => (HasRecord(bus.bus_no) <=> (same /\ ~empty))
                /\ ~same => ~HasRecord(bus.bus_no)

\* feed code t789 has a record in the ETA of route T7890, feed code T78 has none
C24_Witness ==
    /\ qpc = "answered" /\ resp.kind = "route_eta"
    /\ resp.request[1] = TargetRoute
    /\ Len(q_res.buses) = 2
    /\ q_res.buses[1].route = <<"t", "7", "8", "9">>
    /\ q_res.buses[2].route = OtherRoute
    /\ BeforeTarget(q_res.buses[2])
    /\ Len(resp.data) = 1
    /\ resp.data[1].bus_no = "B1"

\* a position without a route code has no record in the ETA of route 0
C24_WitnessEmptyCode ==
    /\ qpc = "answered" /\ resp.kind = "route_eta"
    /\ resp.request[1] = ZeroRoute
    /\ q_res.buses[1].route = <<>>
    /\ BeforeTarget(q_res.buses[1])
    /\ ~HasRecord("B1")

\* the speed the claim names for a record: the reported one when positive
UsedSpeed(eta) == IF eta.speed_kmh > 0 THEN eta.speed_kmh ELSE 20

\* C25 as claimed: eta_minutes is path distance / speed x 60, the speed being the
\* reported one when it is greater than 0 and 20 km/h otherwise (eta_minutes in
\* tenths of a minute, distances in hundredths of a km: 10 x 60 / 100 = 6).
C25_EtaIsDistanceOverSpeed ==
    EtaAnswered =>
        \A i \in 1..Len(resp.data) :
            LET eta == resp.data[i]
            IN  eta.eta_minutes * UsedSpeed(eta) = 6 * eta.distance_km

\* C25: eta_minutes is path distance / speed x 60 rounded to the nearest tenth
\* of a minute (a half rounds up), the speed being the reported one when it is
\* greater than 0 and 20 km/h otherwise.
C25_EtaIsRoundedDistanceOverSpeed ==
    EtaAnswered =>
        \A i \in 1..Len(resp.data) :
            LET eta == resp.data[i]
                used == UsedSpeed(eta)
            IN  /\ 2 * eta.eta_minutes * used - used <= 12 * eta.distance_km
                /\ 12 * eta.distance_km < 2 * eta.eta_minutes * used + used

\* 3.0 km from the target at reported speed 0: eta_minutes = 9.0
C25_Witness ==
    /\ qpc = "answered" /\ resp.kind = "route_eta"
    /\ Len(resp.data) = 1
    /\ resp.data[1].distance_km = 300
    /\ resp.data[1].speed_kmh = 0
    /\ resp.data[1].eta_minutes = 90

\* 3.0 km at 7 km/h: 25.714... minutes, reported as 25.7
C25_WitnessRounded ==
    /\ qpc = "answered" /\ resp.kind = "route_eta"
    /\ Len(resp.data) = 1
    /\ resp.data[1].distance_km = 300
    /\ resp.data[1].speed_kmh = 7
    /\ resp.data[1].eta_minutes = 257

\* a negative reported speed is replaced by the default as well
C25_WitnessNegative ==
    /\ qpc = "answered" /\ resp.kind = "route_eta"
    /\ Len(resp.data) = 1
    /\ resp.data[1].distance_km = 300
    /\ resp.data[1].speed_kmh = -1
    /\ resp.data[1].eta_minutes = 90

\* the route with this id is in the schedule
InSchedule(route_id) == \E r \in 1..Len(gtfs) : gtfs[r].route_id = route_id

\* the stop sequence of the route has a stop with this id
Serves(route_id, stop_id) ==
    \E k \in 1..Len(StopsOf(route_id)) : StopsOf(route_id)[k].stop_id = stop_id

\* C30: a route ETA request whose target stop is not in the route's stop
\* sequence is answered with the 'target stop not found in route' error and no
\* records, whatever the positions; the stop aggregate has records only of
\* routes that contain the target stop, and is empty when no route contains it.
C30_TargetNotOnRoute ==
    /\ (qpc = "answered" /\ resp.kind \in {"route_eta", "error"}
            /\ InSchedule(resp.request[1])
            /\ ~Serves(resp.request[1], resp.request[2])) =>
          /\ resp.kind = "error"
          /\ resp.error = "target stop not found in route"
          /\ resp.data = <<>>
    /\ (qpc = "answered" /\ resp.kind = "stop_eta") =>
          /\ \A i \in 1..Len(resp.data) : Serves(resp.data[i].route_id, TargetStop)
          /\ (\A r \in 1..Len(gtfs) : ~Serves(gtfs[r].route_id, TargetStop))
                => resp.data = <<>>

\* the target stop is not on the requested route, which has a vehicle on it
C30_Witness ==
    /\ qpc = "answered" /\ resp.kind = "error"
    /\ resp.request[1] = TargetRoute
    /\ ~Serves(TargetRoute, TargetStop)
    /\ q_res.buses[1].route = FeedRoute
    /\ q_res.buses[1].latitude = 0

\* the aggregate leaves out the route without the target stop, on which the
\* second vehicle runs, and lists the vehicle of the route with the target stop
C30_WitnessAggregate ==
    /\ qpc = "answered" /\ resp.kind = "stop_eta"
    /\ Len(gtfs) = 2
    /\ InSchedule(OtherRoute)
    /\ ~Serves(OtherRoute, TargetStop)
    /\ Len(q_res.buses) = 2
    /\ q_res.buses[2].route = OtherRoute
    /\ q_res.buses[2].latitude = 0
    /\ Len(resp.data) = 1
    /\ resp.data[1].bus_no = "B1"

\* no route contains the target stop: the aggregate is empty
C30_WitnessNoRoute ==
    /\ qpc = "answered" /\ resp.kind = "stop_eta"
    /\ Len(gtfs) = 2
    /\ \A r \in 1..2 : ~Serves(gtfs[r].route_id, TargetStop)
    /\ Len(q_res.buses) = 2
    /\ resp.data = <<>>

\* ------------------------------------------------- requests and the ingestor
\* an event with one position
StatusPayloads == { <<Parsed(<<BusPosition("B1", 0, 0)>>)>> }

\* the service has been restarted a TTL after its last write: the status record
\* is at its defaults and the cache still holds B2, written at time 0
StatusInit ==
    /\ clock = MaxTTL
    /\ bus_ttl_ms = MaxTTL
    /\ stale_after_ms = 0
    /\ latest = Put(EmptyMap, "B2", to_string(BusPosition("B2", 0, 0)))
    /\ motion = Put(EmptyMap, "B2",
                    to_string(update_bus_motion_state(None, BusPosition("B2", 0, 0), 0)))
    /\ last_seen = Put(EmptyMap, "B2", 0)
    /\ last_ingest = Some(0)
    /\ latestAt = Put(EmptyMap, "B2", 0)
    /\ justWrote = {}
    /\ status = InitialStatus
    /\ WriterIdle
    /\ QueryIdle
    /\ LoopStart
    /\ resp = NoResponse
    /\ gtfs = Gtfs
    /\ hRun = None
    /\ hBefore = None

\* the ingestor connects, handles events and loses its session while requests
\* for the positions and for the status are served, in any interleaving
StatusNext ==
    \/ \E payload \in StatusPayloads : OnAnyEvent(payload)
    \/ OnAnyNext
    \/ EstablishNext
    \/ SocketEvent
    \/ QueryStart
    \/ QueryReadStale
    \/ QueryEvictStep
    \/ QueryReadActive
    \/ QueryFetchBuses
    \/ QueryFetchMotion
    \/ QueryGetIngest
    \/ QueryFail
    \/ FetchAllRespond
    \/ GetIngestorStatus
    \/ ResponseSent

StatusSpec == StatusInit /\ [][StatusNext]_vars

\* C27: a step of a request, the status request included, leaves every field of
\* the IngestorStatus record as it was, whatever the ingestor is doing meanwhile.
C27_QueriesLeaveStatus ==
    [][(queryVars' # queryVars \/ resp' # resp) => status' = status]_vars

\* the status request answered before the ingestor counted its latest message
C27_Witness ==
    /\ qpc = "answered" /\ resp.kind = "status"
    /\ resp.data.connected
    /\ resp.data.messages_processed < status.messages_processed

\* ------------------------------------------------------------- the keepalive
\* the service has started over an empty cache
StartInit ==
    /\ Start
    /\ bus_ttl_ms = MaxTTL
    /\ stale_after_ms = 0

\* the session is established and lost while time passes; the subscribe request
\* is sent again whenever reload_interval ticks
ReloadNext ==
    \/ EstablishNext
    \/ ReloadTickOk
    \/ ReloadTickFail
    \/ NotifiedBreak
    \/ DropSocket
    \/ SocketEvent
    \/ ReloadClock

ReloadSpec == StartInit /\ [][ReloadNext]_vars

\* the step records the failure of a periodic subscribe request
KeepaliveFailed ==
    /\ status' # status
    /\ status'.last_error = Some("Periodic socket reload emit failed")

\* C29: while the ingestor is Connected the time to the next subscribe request
\* runs down with the clock from 20 s (2 units) and the request is sent when it
\* reaches 0, which starts the next 20 s; a failure to send it happens at such a
\* tick, sets connected to false with the error text, increments the reconnect
\* counter by one and ends the Connected state, from which the loop goes on to
\* connect again.
C29_KeepaliveEvery20s ==
    /\ [](ipc = "connected" => reload_in \in 0..2)
    /\ [][/\ ((ipc = "connected" /\ clock' # clock)
                  => (clock' = clock + 1 /\ reload_in' = reload_in - 1))
           /\ ((ipc = "connected" /\ ipc' = "connected" /\ reload_in' > reload_in)
                  => (reload_in = 0 /\ reload_in' = 2))
           /\ (KeepaliveFailed
                  => (/\ ipc = "connected" /\ reload_in = 0
                      /\ ~status'.connected
                      /\ status'.reconnect_count = CountOne(status.reconnect_count)
                      /\ ipc' = "drop"))
           /\ ((ipc = "drop" /\ ipc' # "drop") => ipc' = "redis_connect")]_vars

\* connected at time 0, the request sent again at 20 s, the next one at 40 s
\* failed: the loop has left Connected with the failure recorded and counted
C29_Witness ==
    /\ ipc = "drop"
    /\ clock = 4 /\ reload_in = 0
    /\ ~status.connected
    /\ status.last_error = Some("Periodic socket reload emit failed")
    /\ status.reconnect_count = 1

\* ------------------------------------------------------------ batch writes
\* batches of one or several positions: a vehicle twice in one batch, two
\* vehicles, a position without a number, a reported stop that a later position
\* of the vehicle no longer has, positions in two frames of one payload; and
\* events without a numbered position: an empty array, a frame that is no
\* string, positions without a number only
BatchPayloads ==
    { <<Parsed(<<[BusPosition("B1", 0, 0) EXCEPT !.busstop_id = Some("S1")]>>)>>,
      <<Parsed(<<BusPosition("B1", 3, 2), BusPosition("B1", 1, 0)>>)>>,
      <<Parsed(<<BusPosition("B2", 0, 0)>>)>>,
      <<Parsed(<<BusPosition("B1", 1, 1), BusPosition("", 0, 0),
                 BusPosition("B2", 3, 0)>>)>>,
      <<Parsed(<<BusPosition("B2", 0, 2)>>), Parsed(<<BusPosition("B2", 0, 0)>>)>>,
      <<Parsed(<<>>)>>,
      <<NonString>>,
      <<Parsed(<<BusPosition("", 0, 0), BusPosition("", 1, 0)>>)>> }

\* the cache as an event finds it
CacheNow ==
    [latest |-> latest, motion |-> motion, last_seen |-> last_seen,
     last_ingest |-> last_ingest]

\* an event with a batch arrives; no request is served meanwhile
BatchSample(payload) ==
    /\ OnAnyHandle(payload, MaxMsgs)
    /\ hBefore' = Some(CacheNow)
    /\ UNCHANGED hRun

BatchNext ==
    \/ \E payload \in BatchPayloads : BatchSample(payload)
    \/ OnAnyNext
    \/ MotionTick

\* write_buses_to_redis alone, batch after batch
BatchSpec == StartInit /\ [][BatchNext]_vars

\* the last position the batch carries for this vehicle
LastCarried(bus_no) ==
    LET carried == CarriedPositions(hPayload)
    IN  carried[CHOOSE i \in 1..Len(carried) :
                  /\ carried[i].bus_no = bus_no
                  /\ \A k \in (i + 1)..Len(carried) : carried[k].bus_no # bus_no]

\* the motion state the cache held for this vehicle when the event arrived
StoredBefore(bus_no) ==
    IF bus_no \in DOMAIN hBefore[1].motion
    THEN from_str(hBefore[1].motion[bus_no])
    ELSE None

\* the entries of this vehicle are what they were when the event arrived
EntriesAsBefore(bus_no) ==
    /\ (bus_no \in DOMAIN latest) = (bus_no \in DOMAIN hBefore[1].latest)
    /\ (bus_no \in DOMAIN motion) = (bus_no \in DOMAIN hBefore[1].motion)
    /\ (bus_no \in DOMAIN last_seen) = (bus_no \in DOMAIN hBefore[1].last_seen)
    /\ bus_no \in DOMAIN latest => latest[bus_no] = hBefore[1].latest[bus_no]
    /\ bus_no \in DOMAIN motion => motion[bus_no] = hBefore[1].motion[bus_no]
    /\ bus_no \in DOMAIN last_seen => last_seen[bus_no] = hBefore[1].last_seen[bus_no]

\* the vehicle numbers of the batch being written
BatchIds ==
    {CarriedPositions(hPayload)[i].bus_no : i \in 1..Len(CarriedPositions(hPayload))}
        \ {""}

\* C28: when the write of a batch has succeeded at time now, for every vehicle
\* of the batch with a number the position hash holds the last record of the
\* batch for it, whole, the motion hash holds the classifier's result from the
\* motion state stored before and that record, last_seen is now and the
\* heartbeat is now; the entries of every other vehicle are as they were.
C28_BatchWritten ==
    (wpc = "ok" /\ hBefore # None) =>
        /\ \A v \in BatchIds :
              /\ v \in DOMAIN latest /\ v \in DOMAIN motion /\ v \in DOMAIN last_seen
              /\ latest[v] = to_string(LastCarried(v))
              /\ motion[v] = to_string(update_bus_motion_state(
                                           StoredBefore(v), LastCarried(v), w_now))
              /\ last_seen[v] = w_now
              /\ last_ingest = Some(w_now)
        /\ \A v \in (Vehicles \cup {""}) \ BatchIds : EntriesAsBefore(v)

\* B1 is known with a reported stop; a batch with two positions of it, neither
\* with a stop, and none of B2, has been written at a later time
C28_Witness ==
    /\ wpc = "ok" /\ hBefore # None
    /\ Len(CarriedPositions(hPayload)) = 2
    /\ BatchIds = {"B1"}
    /\ "B1" \in DOMAIN hBefore[1].latest
    /\ "B2" \in DOMAIN hBefore[1].latest
    /\ hBefore[1].latest["B1"] # latest["B1"]
    /\ hBefore[1].last_seen["B1"] < w_now
    /\ latest["B1"] = to_string(BusPosition("B1", 1, 0))

\* ------------------------------------------- properties of the reconnect loop
\* a connection attempt has failed or the connection has been lost, and the loop
\* has not yet started its next iteration
LoopFailed ==
    \/ ipc \in {"sleep", "drop"}
    \/ session = "open" /\ notified

\* the steps that record a lost or failed connection
LossStep ==
    \/ RedisConnectFail
    \/ ConnectFail
    \/ SubscribeFail
    \/ KeepaliveFail
    \/ OnDisconnect
    \/ OnError

\* the delay of the k-th consecutive failure: 1, 2, 4, 8, 16, 30, 30, ...
ExpectedDelay(k) == IF k >= 6 THEN 30 ELSE 2 ^ (k - 1)

\* C7 as stated: after every failure (cache connection, upstream connect,
\* subscribe send, disconnect event, error event, keepalive send) the ingestor,
\* fairly scheduled, eventually starts another upstream connection attempt.
C7_EventuallyUpstreamAttempt == LoopFailed ~> (ipc = "connect")

\* C7 amended: after every failure the ingestor, fairly scheduled, eventually
\* starts another iteration of its loop, which begins with a cache connection
\* attempt; the upstream connection attempt starts when that cache connection
\* succeeds, and otherwise the failure is recorded and the loop sleeps.
C7_EventuallyNextIteration ==
    /\ LoopFailed ~> (ipc = "redis_connect")
    /\ [][(ipc = "redis_connect" /\ ipc' # ipc) =>
            \/ ipc' = "connect"
            \/ /\ ipc' = "sleep"
               /\ ~status'.connected
               /\ status'.last_error # None]_vars

C7_Witness ==
    /\ ipc = "redis_connect"
    /\ hSlept > 0
    /\ ~status.connected
    /\ status.last_error = Some("Socket subscribe emit failed")

\* C8: when the loop starts an upstream connection attempt after having left
\* Connected (disconnect event, error event or keepalive send failure), it has
\* slept a backoff delay since leaving Connected.
C8_BackoffBeforeReconnect == (ipc = "connect") => ~hLost

C10_ReconnectCountedOnce ==
    [][LossStep =>
          /\ ~status'.connected
          /\ status'.last_error # None
          /\ status'.last_error # Some("")
          /\ status'.reconnect_count =
                 IF hSessLost THEN status.reconnect_count
                 ELSE CountOne(status.reconnect_count)]_vars


\* ------------------------------------------------------ path distance (C31)
\* the stops of the route as the schedule files hold them, in no order
RouteStopSet(route_id) == SeqToSet(gtfs[ScheduleIndex(route_id)].stops)

\* the sequence number the route gives to the requested stop
TargetSequence(route_id) ==
    (CHOOSE s \in RouteStopSet(route_id) : s.stop_id = TargetStop).sequence

\* the legs from a point to the stops numbered k, k + 1, ... up to the target's
\* number, each stop taken when the route has a stop of that number
RECURSIVE LegsFrom(_, _, _, _, _)
LegsFrom(route_id, lat, lon, k, target_sequence) ==
    IF k > target_sequence THEN 0
    ELSE IF \E s \in RouteStopSet(route_id) : s.sequence = k
         THEN LET stop == CHOOSE s \in RouteStopSet(route_id) : s.sequence = k
              IN  haversine_distance(lat, lon, stop.stop_lat, stop.stop_lon)
                  + LegsFrom(route_id, stop.stop_lat, stop.stop_lon, k + 1,
                             target_sequence)
         ELSE LegsFrom(route_id, lat, lon, k + 1, target_sequence)

\* C31: the path distance of an ETA record is the sum of the legs of the chain
\* that starts at the vehicle's raw coordinates and visits, in increasing
\* sequence order, exactly the stops of the route whose sequence number is
\* above the record's current_sequence and at most the target's, ending at the
\* target stop; the resolved current stop and the stops beyond the target add
\* no leg.
C31_PathDistanceAlongChain ==
    EtaAnswered =>
        \A k \in 1..Len(resp.data) :
            LET eta == resp.data[k]
            IN  /\ eta.current_sequence < TargetSequence(eta.route_id)
                /\ eta.distance_km =
                       LegsFrom(eta.route_id, eta.current_lat, eta.current_lon,
                                eta.current_sequence + 1,
                                TargetSequence(eta.route_id))

\* a vehicle 2 km away that reports stop S3 of the route listed out of order:
\* 1.5 km to S4 and 0.2 km back to S2; S3 (1.9 km away) and S5 add nothing
C31_Witness ==
    /\ qpc = "answered" /\ resp.kind = "route_eta"
    /\ gtfs[1].stops = EtaStopLists[5]
    /\ Len(resp.data) >= 1
    /\ resp.data[1].current_stop_id = "S3"
    /\ resp.data[1].current_lat = 200
    /\ resp.data[1].distance_km = 170

\* a vehicle at S1: S3, S4 and S2 in this order, 0.7 km, though S2 is 0.3 km away
C31_WitnessDetour ==
    /\ qpc = "answered" /\ resp.kind = "stop_eta"
    /\ gtfs[1].stops = EtaStopLists[5]
    /\ Len(resp.data) >= 1
    /\ resp.data[1].current_stop_id = "S1"
    /\ resp.data[1].current_lat = 0
    /\ resp.data[1].distance_km = 70


\* ------------------------------------------- eviction against writes (C32)
\* the vehicles whose position or motion entry this step deletes
Deleted ==
    (DOMAIN latest \ DOMAIN latest') \cup (DOMAIN motion \ DOMAIN motion')

\* the vehicle's last-seen score is newer than the cutoff of the snapshot in flight
NewerThanCutoff(v) == v \in DOMAIN last_seen /\ last_seen[v] > Cutoff

\* C32: a snapshot's eviction never deletes the position or the motion state of
\* a vehicle whose last-seen score is newer than the cutoff at the moment of the
\* deletion; a write for the vehicle that lands between the snapshot's read of
\* the stale ids and its delete step survives.
C32_EvictionSparesFresh ==
    [][\A v \in Deleted : ~NewerThanCutoff(v)]_vars


\* ------------------------------------------------- the connected flag (C33)
\* the loop is opening the cache or the upstream connection or subscribing
Connecting == ipc \in {"redis_connect", "connect", "subscribe"}

\* the loop waits in its select with no disconnect signalled to it
InConnected == ipc = "connected" /\ ~notified

\* C33: status.connected is true only while an upstream session is established
\* that has signalled neither disconnect nor error: it is false whenever the
\* loop is back in Connecting and true whenever the loop is in Connected, in
\* every interleaving of the socket's handlers with the loop.
C33_ConnectedFollowsSession ==
    /\ Connecting => ~status.connected
    /\ InConnected => status.connected


\* ------------------------------------------------ the three indexes (C34)
\* no write and no snapshot is in flight
CacheQuiet == wpc = "idle" /\ qpc \in {"idle", "done"}

\* C34: whenever no write and no snapshot is in flight, the position hash, the
\* motion hash and the last-seen set hold the same vehicle numbers; and the
\* active_bus_count of a snapshot is the number of positions it returns, after
\* any interleaving of writes and snapshots.
C34_IndexesAgree ==
    /\ CacheQuiet =>
          /\ DOMAIN latest = DOMAIN last_seen
          /\ DOMAIN motion = DOMAIN last_seen
    /\ SnapshotOk => q_res.active_bus_count = Len(q_res.buses)


\* ------------------------------------- first sighting after eviction (C35)
\* the vehicles without a motion state for which this step stores one: never
\* seen, or evicted since their last write
MotionStoredAnew == DOMAIN motion' \ DOMAIN motion

\* C35: the write that follows the eviction of a vehicle stores a first
\* sighting: the anchor is the written position's coordinates and
\* stationary_since is none or the write's now_ms; nothing of the motion state
\* the vehicle had before the eviction is carried over, also when the write's
\* read of the prior motion state and the eviction interleave.
C35_FirstSightingAfterEviction ==
    [][\A v \in MotionStoredAnew :
          LET state == from_str(motion'[v])[1]
              bus == LastCarried(v)
          IN  /\ state.reference_lat = bus.latitude
              /\ state.reference_lon = bus.longitude
              /\ state.stationary_since_unix_ms \in {None, Some(w_now)}]_vars


\* ----------------------------------------------------- the heartbeat (C36)
\* no write_buses_to_redis is between its first and its last command
NoWriteInFlight == wpc \notin {"write", "pipe"}

\* C36: the ingest heartbeat never decreases and, once written, is never
\* removed; and in every state with no write in flight it is at least the
\* last-seen score of every vehicle of the last-seen set.
C36_HeartbeatCoversLastSeen ==
    /\ [][last_ingest # None =>
             /\ last_ingest' # None
             /\ last_ingest'[1] >= last_ingest[1]]_vars
    /\ [](NoWriteInFlight =>
             \A v \in DOMAIN last_seen :
                 last_ingest # None /\ last_ingest[1] >= last_seen[v])


\* ------------------------------------- events without a numbered position (C37)
\* an entry is stored under the empty vehicle number
EmptyNumberStored ==
    "" \in (DOMAIN latest \cup DOMAIN motion \cup DOMAIN last_seen)

\* the event being handled carries positions, none of them with a number
OnlyUnnumbered == wpc # "idle" /\ hBefore # None /\ BatchIds = {}

\* C37: a position with an empty vehicle number is never stored in any index.
\* Every event counts as a message and sets the last message time; an event
\* that yields no position is over with that; an event whose positions all lack
\* a number goes through write_buses_to_redis without a pipeline, so the three
\* indexes and the heartbeat stay as the event found them.
C37_UnnumberedNeverStored ==
    /\ [](~EmptyNumberStored)
    /\ [][\A payload \in BatchPayloads :
            BatchSample(payload) =>
                /\ status'.messages_processed = status.messages_processed + 1
                /\ status'.last_message_unix_ms = Some(clock)
                /\ CarriedPositions(payload) = <<>> =>
                      wpc' = "idle" /\ CacheNow = hBefore'[1]]_vars
    /\ [](OnlyUnnumbered => wpc \in {"write", "ok"} /\ CacheNow = hBefore[1])

\* with B1 and a heartbeat in the cache, a later event that carries two positions
\* without a number has gone through the write
C37_Witness ==
    /\ OnlyUnnumbered /\ wpc = "ok"
    /\ Len(CarriedPositions(hPayload)) = 2
    /\ "B1" \in DOMAIN latest
    /\ last_ingest # None /\ last_ingest[1] < w_now
    /\ status.last_message_unix_ms = Some(w_now)
    /\ status.messages_processed >= 2

\* an event without a numbered position has been handled after B1 was written,
\* at a later time than the heartbeat
C37_WitnessNoPositions ==
    /\ wpc = "idle" /\ hBefore # None
    /\ "B1" \in DOMAIN hBefore[1].latest
    /\ status.last_message_unix_ms # None
    /\ last_ingest # None /\ last_ingest[1] < status.last_message_unix_ms[1]

====
